---------------------------- MODULE Spec2Model ----------------------------
(***************************************************************************)
(* A model of livepush: the Dockerfile action-group compiler (Stage,       *)
(* Dockerfile), the invalidation engine                                    *)
(* (Dockerfile.getActionGroupsFromChangedFiles), the container executor    *)
(* (Container.executeActionGroups) and the orchestrator                    *)
(* (Livepush.performLivepush / cancel).                                    *)
(*                                                                         *)
(* Paths are sequences of segments; an absolute path starts with the       *)
(* segment "/".  Strings that the code takes apart (stage names, the keys  *)
(* of the task map) are sequences of one-character strings.                *)
(***************************************************************************)
EXTENDS Integers, Sequences, FiniteSets, TLC

VARIABLES
    \* ---- Dockerfile (src/unnamed/part_009) ----
    stages,          \* Dockerfile.stages: sequence of Stage records (stage i at position i+1)
    dfpc,            \* where the Dockerfile is: "parse", "ready", "seeded", "expand", "done", "error"
    nentries,        \* number of parsed entries consumed by Dockerfile.parse so far
    files,           \* getActionGroupsFromChangedFiles: the normalized `files`
    stagedGroups,    \* getActionGroupsFromChangedFiles: the local `stagedGroups`
    worklist,        \* the argument of the pending buildDependencyGraph call
    expanded,        \* frontier stages processed by buildDependencyGraph in this expansion (counted up to MaxExpanded)
    live,            \* Dockerfile: dockerfileContent, parsedDockerfile, liveCmd, hasLiveAction, liveDockerfile
    \* ---- Livepush (src/lib/livepush.ts) and its Containers (src/lib/container.ts) ----
    livepushRunning, \* Livepush.livepushRunning
    cancelRun,       \* Livepush.cancelRun
    containers,      \* Livepush.containers: stage index -> Container
    calls,           \* the performLivepush invocations: call id -> activation record
    ncancel,         \* number of direct cancel() calls made so far
    nstops,          \* number of times the environment stopped a container
    cleanup,         \* the cleanupIntermediateContainers invocation: where it is, what is left
    init,            \* the Livepush.init invocation: where it is, the helper containers created
    \* ---- the watcher (src/unnamed/part_005) ----
    changedFiles,    \* getExecutor: the elements of the array changedFiles
    deletedFiles,    \* getExecutor: the elements of the array deletedFiles
    pendingSince,    \* the number of performLivepush calls made when executor() was last called (NaN: never)
    resumed,         \* the calls whose actualExecutor has gone on past its await
    \* ---- the filesystems of the containers, as Container.pathIsDirectory sees them ----
    dirs,            \* the <<stage index, path>> pairs that are directories at present
    tests            \* the pathIsDirectory calls made so far, and the promise each one got

dfvars == <<stages, dfpc, nentries, files, stagedGroups, worklist, expanded, live>>
lpvars == <<livepushRunning, cancelRun, containers, calls, ncancel, nstops, cleanup, init>>
wvars == <<changedFiles, deletedFiles, pendingSince, resumed>>
mvars == <<dirs, tests>>
vars == <<stages, dfpc, nentries, files, stagedGroups, worklist, expanded, live,
          livepushRunning, cancelRun, containers, calls, ncancel, nstops, cleanup, init,
          changedFiles, deletedFiles, pendingSince, resumed, dirs, tests>>

-----------------------------------------------------------------------------
(* Bounds of the model *)

\* entries of a parsed Dockerfile in the compiler specification
MaxEntries == 6
\* stages of a Dockerfile in the compiler specification
MaxStages == 3
\* the count of processed frontier stages stops here
MaxExpanded == 8
\* length of the buildDependencyGraph argument list that is still explored
MaxWorklist == 4
\* performLivepush invocations in the orchestrator specification
MaxCalls == 2
MaxOverlap == 4
\* direct cancel() calls
MaxCancels == 1
\* container stops caused by the environment
MaxStops == 1
MaxCleanups == 2
MaxImages == 11
MaxOutput == 2
MaxLines == 4
MaxGenerations == 2
\* performLivepush invocations made by the watcher
MaxWatcherCalls == 2
\* lines of a text in the specification of parseDockerfile
MaxParserLines == 4
\* pathIsDirectory calls in the specification of the memoization
MaxTests == 3
\* lines of a Dockerfile in the specification of the commands of the stages
MaxCommandLines == 5

-----------------------------------------------------------------------------
(* Sequence helpers *)

Last(s) == s[Len(s)]

Range(s) == {s[i] : i \in 1..Len(s)}

\* Array.prototype.slice(idx) with a 0-based idx
Slice(s, idx) == SubSeq(s, idx + 1, Len(s))

IsPrefix(p, s) == Len(p) <= Len(s) /\ SubSeq(s, 1, Len(p)) = p

IsSuffix(p, s) == Len(p) <= Len(s) /\ SubSeq(s, Len(s) - Len(p) + 1, Len(s)) = p

-----------------------------------------------------------------------------
(* Strings: decimal numerals, parseInt, the default sort order *)

Digits == <<"0", "1", "2", "3", "4", "5", "6", "7", "8", "9">>

IsDigit(c) == c \in Range(Digits)

DigitVal(c) == (CHOOSE i \in 1..10 : Digits[i] = c) - 1

\* UTF-16 code unit order of the characters used: digits before letters
CharCode(c) == IF IsDigit(c) THEN DigitVal(c) ELSE 50

\* Number.prototype.toString() for 0..99
NumberToString(n) == IF n < 10 THEN <<Digits[n + 1]>>
               ELSE <<Digits[(n \div 10) + 1], Digits[(n % 10) + 1]>>

NaN == -1

RECURSIVE ParseDigits(_, _, _)
ParseDigits(str, i, acc) ==
    IF i > Len(str) \/ ~IsDigit(str[i]) THEN acc
    ELSE ParseDigits(str, i + 1, acc * 10 + DigitVal(str[i]))

\* parseInt(str, 10): the leading digits, NaN when there is none
ParseInt(str) ==
    IF Len(str) = 0 \/ ~IsDigit(str[1]) THEN NaN ELSE ParseDigits(str, 1, 0)

\* a < b in the order Array.prototype.sort() uses without a comparator
RECURSIVE StrLess(_, _)
StrLess(a, b) ==
    IF Len(b) = 0 THEN FALSE
    ELSE IF Len(a) = 0 THEN TRUE
    ELSE IF a[1] # b[1] THEN CharCode(a[1]) < CharCode(b[1])
    ELSE StrLess(Tail(a), Tail(b))

-----------------------------------------------------------------------------
(* Paths *)

Root == <<"/">>

IsAbsolute(p) == Len(p) > 0 /\ p[1] = "/"

NotDot(seg) == seg # "."

\* path.normalize: drops the "." segments; the empty path is "."
Normalize(p) ==
    LET q == SelectSeq(p, NotDot)
    IN  IF q = <<>> THEN <<".">> ELSE q

\* path.join(a, b)
Join(a, b) == Normalize(a \o b)

\* path.resolve against the working directory of the process
Resolve(p) ==
    IF IsAbsolute(p) THEN SelectSeq(p, NotDot)
    ELSE <<"/", "cwd">> \o SelectSeq(p, NotDot)

\* action-group.ts isChildPath: path.relative(parent, child) is non-empty and
\* does not climb out of parent
isChildPath(parent, child) ==
    LET P == Resolve(parent)
        C == Resolve(child)
    IN  Len(P) < Len(C) /\ IsPrefix(P, C)

\* minimatch(file, pattern) for patterns of literal segments and "*"
minimatch(file, pattern) ==
    /\ Len(file) = Len(pattern)
    /\ \A i \in 1..Len(pattern) :
          \/ pattern[i] = file[i]
          \/ pattern[i] = "*" /\ file[i] # "."

copyMatchesFile(copy, file) ==
    minimatch(file, copy.source) \/ isChildPath(copy.source, file)

\* the files of `fs` matched by some copy of the group (uniq: a set)
fileMatchesForActionGroup(fs, actionGroup) ==
    {f \in fs : \E i \in 1..Len(actionGroup.copies) :
                    copyMatchesFile(actionGroup.copies[i], f)}

-----------------------------------------------------------------------------
(* Stage (src/lib/fs-monitor.ts, class Stage) *)

\* new Stage(index, name): the constructor and the field initialisers
NewStage(index, name) ==
    [index |-> index,
     name |-> name,
     dependentOnStages |-> {},
     isLast |-> FALSE,
     actionGroups |-> << [dependentOnStage |-> FALSE,
                          commands |-> <<>>,
                          copies |-> <<>>,
                          workdir |-> Root] >>,
     lastStepWasCopy |-> FALSE,
     lastWorkdir |-> Root,
     ungroupedCommands |-> <<>>]

\* no copy is ever added to the last group
neverAddCopyToGroup(stage, dependentOnStage, stageIdx) == FALSE

canAddCopyToGroup(stage, dependentOnStage, stageIdx) ==
    IF stage.lastStepWasCopy
    THEN LET actionGroup == Last(stage.actionGroups)
         IN  IF dependentOnStage
             THEN actionGroup.dependentOnStage
                  /\ actionGroup.stageDependency = stageIdx
             ELSE ~actionGroup.dependentOnStage
    ELSE FALSE

\* args: the sources followed by the destination
copyArgsToCopies(args, actionGroup) ==
    LET last == args[Len(args)]
        dest == IF IsAbsolute(last) THEN last ELSE Join(actionGroup.workdir, last)
    IN  [i \in 1..(Len(args) - 1) |-> [source |-> Normalize(args[i]), dest |-> dest]]

\* the last action group with the ungrouped commands appended to its commands
FlushCommands(stage) ==
    [stage.actionGroups EXCEPT ![Len(stage.actionGroups)].commands =
        @ \o stage.ungroupedCommands]

addLocalCopyStep(stage, args) ==
    IF canAddCopyToGroup(stage, FALSE, NaN)
    THEN [stage EXCEPT
            !.actionGroups = [stage.actionGroups EXCEPT ![Len(stage.actionGroups)].copies =
                                @ \o copyArgsToCopies(args, Last(stage.actionGroups))],
            !.lastStepWasCopy = TRUE]
    ELSE LET actionGroup == [dependentOnStage |-> FALSE,
                             commands |-> <<>>,
                             copies |-> <<>>,
                             workdir |-> stage.lastWorkdir]
         IN  [stage EXCEPT
                !.actionGroups = Append(FlushCommands(stage),
                    [actionGroup EXCEPT !.copies = copyArgsToCopies(args, actionGroup)]),
                !.ungroupedCommands = <<>>,
                !.lastStepWasCopy = TRUE]

WithSourceStage(copies, stageIdx) ==
    [i \in 1..Len(copies) |->
        [sourceStage |-> stageIdx, source |-> copies[i].source, dest |-> copies[i].dest]]

addStageCopyStep(stage, args, stageIdx) ==
    LET grown ==
          IF canAddCopyToGroup(stage, TRUE, stageIdx)
          THEN [stage EXCEPT
                  !.actionGroups = [stage.actionGroups EXCEPT ![Len(stage.actionGroups)].copies =
                      @ \o WithSourceStage(
                              copyArgsToCopies(args, Last(stage.actionGroups)), stageIdx)]]
          ELSE LET actionGroup == [dependentOnStage |-> TRUE,
                                   commands |-> <<>>,
                                   stageDependency |-> stageIdx,
                                   copies |-> <<>>,
                                   workdir |-> stage.lastWorkdir]
               IN  [stage EXCEPT
                      !.actionGroups = Append(FlushCommands(stage),
                          [actionGroup EXCEPT !.copies =
                              WithSourceStage(copyArgsToCopies(args, actionGroup), stageIdx)]),
                      !.ungroupedCommands = <<>>]
    IN  [grown EXCEPT !.lastStepWasCopy = TRUE,
                      !.dependentOnStages = @ \cup {stageIdx}]

\* the command goes in front of the ungrouped commands
addCommandStepInFront(stage, command) ==
    [stage EXCEPT !.ungroupedCommands = <<command>> \o @,
                  !.lastStepWasCopy = FALSE]

addCommandStep(stage, command) ==
    [stage EXCEPT !.ungroupedCommands = Append(@, command),
                  !.lastStepWasCopy = FALSE]

addWorkdirStep(stage, workdir) ==
    [stage EXCEPT
        !.actionGroups = Append(FlushCommands(stage),
                                [copies |-> <<>>,
                                 dependentOnStage |-> FALSE,
                                 commands |-> <<>>,
                                 workdir |-> workdir]),
        !.lastWorkdir = workdir,
        !.ungroupedCommands = <<>>,
        !.lastStepWasCopy = FALSE]

\* lines 267-272: the groups that are kept; KeepsAll keeps the pointless ones too
KeepsAll(ag) == TRUE

NotPointless(ag) == ~(Len(ag.commands) = 0 /\ Len(ag.copies) = 0)

finalize(stage) ==
    [stage EXCEPT !.actionGroups = SelectSeq(FlushCommands(stage), NotPointless)]

\* the same loop without the test that skips the stage copies
RECURSIVE FirstGroupOfAnyKind(_, _, _)
FirstGroupOfAnyKind(actionGroups, fs, idx) ==
    IF idx >= Len(actionGroups) THEN NaN
    ELSE IF Cardinality(fileMatchesForActionGroup(fs, actionGroups[idx + 1])) > 0
         THEN idx
         ELSE FirstGroupOfAnyKind(actionGroups, fs, idx + 1)

\* the 0-based index of the first group at or after idx that a changed file
\* triggers, or NaN: the loop of getActionGroupsForChangedFiles
RECURSIVE FirstFileGroup(_, _, _)
FirstFileGroup(actionGroups, fs, idx) ==
    IF idx >= Len(actionGroups) THEN NaN
    ELSE IF actionGroups[idx + 1].dependentOnStage
         THEN FirstFileGroup(actionGroups, fs, idx + 1)
         ELSE IF Cardinality(fileMatchesForActionGroup(fs, actionGroups[idx + 1])) > 0
              THEN idx
              ELSE FirstFileGroup(actionGroups, fs, idx + 1)

getActionGroupsForChangedFiles(stage, fs) ==
    LET idx == FirstFileGroup(stage.actionGroups, fs, 0)
    IN  IF idx = NaN THEN <<>> ELSE Slice(stage.actionGroups, idx)

\* the loop of getActionGroupsForChangedStage
RECURSIVE FirstStageGroup(_, _, _)
FirstStageGroup(actionGroups, stageIdx, idx) ==
    IF idx >= Len(actionGroups) THEN NaN
    ELSE IF ~actionGroups[idx + 1].dependentOnStage
         THEN FirstStageGroup(actionGroups, stageIdx, idx + 1)
         ELSE IF actionGroups[idx + 1].stageDependency = stageIdx
              THEN idx
              ELSE FirstStageGroup(actionGroups, stageIdx, idx + 1)

getActionGroupsForChangedStage(stage, stageIdx) ==
    LET idx == FirstStageGroup(stage.actionGroups, stageIdx, 0)
    IN  IF idx = NaN THEN <<>> ELSE Slice(stage.actionGroups, idx)

-----------------------------------------------------------------------------
(* Dockerfile (src/unnamed/part_009) *)

\* Dockerfile.removeFlags: the flags (key -> value) and the other arguments
IsFlag(a) == a.flag
NotFlag(a) == ~a.flag

removeFlags(args) ==
    [flags |-> SelectSeq(args, IsFlag), nonFlags |-> SelectSeq(args, NotFlag)]

HasFlag(flags, key) == \E i \in 1..Len(flags) : flags[i].key = key

\* the value of flags[key]: of the last flag with that key (_.fromPairs)
FlagValue(flags, key) ==
    flags[CHOOSE i \in 1..Len(flags) :
            /\ flags[i].key = key
            /\ \A j \in (i + 1)..Len(flags) : flags[j].key # key].value

PathsOf(tokens) == [i \in 1..Len(tokens) |-> tokens[i].path]

\* Dockerfile.stageNameToIndex; NaN stands for the thrown DockerfileParseError
stageNameToIndex(stgs, name) ==
    LET found == {i \in 1..Len(stgs) : stgs[i].name = name}
    IN  IF found # {}
        THEN stgs[CHOOSE i \in found : \A j \in found : i <= j].index
        ELSE ParseInt(name)

Ok(stgs) == [stages |-> stgs, error |-> "none"]
Thrown(stgs, error) == [stages |-> stgs, error |-> error]

SetCurrent(stgs, stage) == [stgs EXCEPT ![Len(stgs)] = stage]

\* one iteration of the loop of Dockerfile.parse over the entries; the stage
\* index counter equals the number of stages pushed so far
ParseEntry(stgs, entry) ==
    CASE entry.name = "FROM" ->
           IF Len(entry.args) = 1
           THEN Ok(Append(stgs, NewStage(Len(stgs), NumberToString(Len(stgs)))))
           ELSE IF Len(entry.args) = 3 /\ entry.args[2] = "AS"
                THEN Ok(Append(stgs, NewStage(Len(stgs), entry.args[3])))
                ELSE Thrown(stgs, "DockerfileParseError")
      [] entry.name = "COPY" ->
           IF Len(stgs) = 0 THEN Thrown(stgs, "DockerfileParseError")
           ELSE LET split == removeFlags(entry.args)
                    copyArgs == PathsOf(split.nonFlags)
                IN  IF HasFlag(split.flags, "from")
                    THEN LET idx == stageNameToIndex(stgs, FlagValue(split.flags, "from"))
                         IN  IF idx = NaN \/ Len(copyArgs) < 2
                             THEN Thrown(stgs, "DockerfileParseError")
                             ELSE Ok(SetCurrent(stgs,
                                        addStageCopyStep(Last(stgs), copyArgs, idx)))
                    ELSE IF Len(copyArgs) < 2
                         THEN Thrown(stgs, "DockerfileParseError")
                         ELSE Ok(SetCurrent(stgs, addLocalCopyStep(Last(stgs), copyArgs)))
      [] entry.name = "ADD" -> Thrown(stgs, "UnsupportedError")
      [] entry.name = "WORKDIR" ->
           IF Len(stgs) = 0 THEN Thrown(stgs, "DockerfileParseError")
           ELSE Ok(SetCurrent(stgs, addWorkdirStep(Last(stgs), entry.args)))
      [] entry.name = "RUN" ->
           IF Len(stgs) = 0 THEN Thrown(stgs, "DockerfileParseError")
           ELSE Ok(SetCurrent(stgs, addCommandStep(Last(stgs), entry.args)))
      [] OTHER -> Ok(stgs)

\* the end of Dockerfile.parse: every stage finalized, the last one flagged
ParseFinish(stgs) ==
    [i \in 1..Len(stgs) |->
        [finalize(stgs[i]) EXCEPT !.isLast = (i = Len(stgs))]]

\* the whole loop over a list of entries
RECURSIVE ParseEntries(_, _)
ParseEntries(stgs, entries) ==
    IF Len(entries) = 0 THEN Ok(stgs)
    ELSE LET r == ParseEntry(stgs, Head(entries))
         IN  IF r.error # "none" THEN r ELSE ParseEntries(r.stages, Tail(entries))

\* the first loop of getActionGroupsFromChangedFiles: the stages that change
\* as a direct result of a local copy
LocalStagedGroups(stgs, fs) ==
    LET hit == {i \in 1..Len(stgs) : Len(getActionGroupsForChangedFiles(stgs[i], fs)) > 0}
    IN  [idx \in {i - 1 : i \in hit} |-> getActionGroupsForChangedFiles(stgs[idx + 1], fs)]

\* a set of natural numbers as the ascending list Object.keys gives for
\* integer keys
RECURSIVE Ascending(_)
Ascending(S) ==
    IF S = {} THEN <<>>
    ELSE LET m == CHOOSE x \in S : \A y \in S : x <= y
         IN  <<m>> \o Ascending(S \ {m})

\* files.map(path.normalize)
NormalizeAll(fs) == {Normalize(f) : f \in fs}

\* line 70: does `stage` depend on the stage stageIdx?
DependsOnAnyStage(stage, stageIdx) == stage.dependentOnStages # {}

DependsOnStage(stage, stageIdx) == stageIdx \in stage.dependentOnStages

\* lines 77-82: the longest chain is the one saved for the stage
RecordLastChain(sg, index, invalidatedByStage) ==
    [k \in DOMAIN sg \cup {index} |-> IF k = index THEN invalidatedByStage ELSE sg[k]]

RecordLongestChain(sg, index, invalidatedByStage) ==
    IF index \notin DOMAIN sg \/ Len(sg[index]) < Len(invalidatedByStage)
    THEN [k \in DOMAIN sg \cup {index} |-> IF k = index THEN invalidatedByStage ELSE sg[k]]
    ELSE sg

\* line 85: the invalidated stage joins the stages still to detect
ForgetStage(tail, index) == tail

PushStage(tail, index) == Append(tail, index)

\* the for loop of buildDependencyGraph for the head stageIdx, from stage
\* position i on: the updated stagedGroups and tail
RECURSIVE CheckStages(_, _, _, _, _)
CheckStages(stgs, stageIdx, i, sg, tail) ==
    IF i > Len(stgs) THEN [stagedGroups |-> sg, tail |-> tail]
    ELSE LET stage == stgs[i]
         IN  IF stage.index = stageIdx
             THEN CheckStages(stgs, stageIdx, i + 1, sg, tail)
             ELSE IF DependsOnStage(stage, stageIdx)
                  THEN CheckStages(stgs, stageIdx, i + 1,
                          RecordLongestChain(sg, stage.index,
                              getActionGroupsForChangedStage(stage, stageIdx)),
                          PushStage(tail, stage.index))
                  ELSE CheckStages(stgs, stageIdx, i + 1, sg, tail)

\* one call of buildDependencyGraph up to its recursive call.  With an empty
\* argument stageIdx is undefined and no stage depends on it.
buildDependencyGraphCall(stgs, sg, list) ==
    IF Len(list) = 0 THEN [stagedGroups |-> sg, tail |-> <<>>]
    ELSE CheckStages(stgs, Head(list), 1, sg, Tail(list))

RECURSIVE buildDependencyGraph(_, _, _)
buildDependencyGraph(stgs, sg, list) ==
    LET r == buildDependencyGraphCall(stgs, sg, list)
    IN  IF Len(r.tail) = 0 THEN r.stagedGroups
        ELSE buildDependencyGraph(stgs, r.stagedGroups, r.tail)

getActionGroupsFromChangedFiles(stgs, fs) ==
    LET seeded == LocalStagedGroups(stgs, NormalizeAll(fs))
    IN  buildDependencyGraph(stgs, seeded, Ascending(DOMAIN seeded))

-----------------------------------------------------------------------------
(* The inputs explored *)

PathArg(p) == [flag |-> FALSE, path |-> p]
FromFlag(ref) == [flag |-> TRUE, key |-> "from", value |-> ref]

\* sources of local copies: a file and a directory
LocalSources == { <<"a">>, <<"src">> }
\* what `COPY --from=` names: stage indices and an alias
StageRefs == { <<"0">>, <<"1">>, <<"b">> }
\* changed files, as the caller passes them (not yet normalized)
Files == { <<".", "a">>, <<"src", "x">> }

Destination == <<"/", "d">>

FromEntries ==
    { [name |-> "FROM", args |-> <<"image">>],
      [name |-> "FROM", args |-> <<"image", "AS", <<"b">> >>] }

LocalCopyEntries ==
    { [name |-> "COPY", args |-> <<PathArg(s), PathArg(Destination)>>] : s \in LocalSources }

StageCopyEntries ==
    { [name |-> "COPY", args |-> <<FromFlag(r), PathArg(<<"a">>), PathArg(Destination)>>] :
        r \in StageRefs }

OtherEntries ==
    { [name |-> "RUN", args |-> "c1"],
      [name |-> "WORKDIR", args |-> <<"/", "w">>] }

Entries == FromEntries \cup LocalCopyEntries \cup StageCopyEntries \cup OtherEntries

-----------------------------------------------------------------------------
(* The live recipe: parseDockerfile (src/lib/dockerfile-parser.ts) and the
   directives of Dockerfile (parse, generateLiveDockerfile).

   A text is the sequence of its lines, what content.split('\n') gives: a
   text that ends with a newline has a blank last line.  A comment is the
   sequence of its pieces, "=" a piece of its own and every other piece a run
   of characters without "="; an instruction line is written as its name and
   its lexed arguments. *)

Blank == [line |-> "blank"]
Comment(space, body) == [line |-> "comment", space |-> space, body |-> body]
Instruction(name, args) == [line |-> "instruction", name |-> name, args |-> args]

\* a value that may be null
Null == <<>>
Some(x) == <<x>>

\* extractComment: the text behind the '#'s and the white space after them
extractComment(line) == IF line.line = "comment" THEN Some(line.body) ELSE Null

\* directiveRegex, /([^=]+)=(.+)/ without anchors: the match starts at the
\* first piece that is not "=", match[1] ends before the next "=" and
\* match[2], not empty, is all that follows it
FirstIndex(s, from, isEquals) ==
    LET found == {i \in from..Len(s) : (s[i] = "=") = isEquals}
    IN  IF found = {} THEN 0 ELSE CHOOSE i \in found : \A j \in found : i <= j

directiveRegex(comment) ==
    LET start == FirstIndex(comment, 1, FALSE)
        equals == IF start = 0 THEN 0 ELSE FirstIndex(comment, start, TRUE)
    IN  IF equals = 0 \/ equals = Len(comment) THEN Null
        ELSE Some(<<SubSeq(comment, start, equals - 1),
                    SubSeq(comment, equals + 1, Len(comment))>>)

DirectiveName(key) ==
    CASE key = <<"dev-cmd-live">> -> "LIVECMD"
      [] key = <<"escape">> -> "ESCAPE"
      [] key = <<"livecmd-marker">> -> "LIVECMD_MARKER"
      [] key = <<"dev-run">> -> "LIVERUN"
      [] key = <<"dev-copy">> -> "LIVECOPY"
      [] OTHER -> "none"

\* extractDirective: the typed entry of a comment, or null
extractDirective(comment, lineno) ==
    LET match == directiveRegex(comment)
    IN  IF match = Null THEN Null
        ELSE IF DirectiveName(match[1][1]) = "none" THEN Null
        ELSE Some([name |-> DirectiveName(match[1][1]),
                   args |-> match[1][2],
                   lineno |-> lineno,
                   raw |-> Comment(FALSE, comment)])

\* the directives of a text, in the order of their lines
RECURSIVE Directives(_, _)
Directives(content, idx) ==
    IF idx > Len(content) THEN <<>>
    ELSE LET comment == extractComment(content[idx])
             directive == IF comment = Null THEN Null
                          ELSE extractDirective(comment[1], idx)
         IN  directive \o Directives(content, idx + 1)

\* An instruction may run over several lines: Continued(name, args) is the
\* line `NAME args \` that opens one, Piece(text, continues) a line of plain
\* text (`text`, or `text \` when it continues), EscapeLine the line that
\* holds the escape character and nothing else.
Continued(name, args) == [line |-> "continued", name |-> name, args |-> args]
Piece(text, continues) == [line |-> "piece", text |-> text, continues |-> continues]
EscapeLine == [line |-> "escape"]

DefaultEscape == "\\"

\* lastNonCommentLine.endsWith(escapeCharacter): the lines that continue end
\* with a backslash
EndsWithEscape(line, escapeCharacter) ==
    /\ escapeCharacter = DefaultEscape
    /\ line # Null
    /\ \/ line[1].line \in {"continued", "escape"}
       \/ line[1].line = "piece" /\ line[1].continues

\* parseDockerfile, the line put for a comment that is no directive: the
\* escape character when the last line that is no comment ends with it
LineForComment(lastNonCommentLine, escapeCharacter) ==
    IF EndsWithEscape(lastNonCommentLine, escapeCharacter) THEN EscapeLine ELSE Blank

\* parseDockerfile, the text handed to docker-file-parser: the lines of the
\* map over content.split
RECURSIVE nonCommentLines(_, _, _, _)
nonCommentLines(content, idx, escapeCharacter, lastNonCommentLine) ==
    IF idx > Len(content) THEN <<>>
    ELSE LET line == content[idx]
             comment == extractComment(line)
             directive == IF comment = Null THEN Null
                          ELSE extractDirective(comment[1], idx)
         IN  IF comment = Null
             THEN <<line>> \o nonCommentLines(content, idx + 1, escapeCharacter,
                                              Some(line))
             ELSE IF directive # Null
             THEN << IF directive[1].name = "ESCAPE" THEN line ELSE Blank >>
                  \o nonCommentLines(content, idx + 1,
                         IF directive[1].name = "ESCAPE"
                         THEN Head(directive[1].args) ELSE escapeCharacter,
                         lastNonCommentLine)
             ELSE << LineForComment(lastNonCommentLine, escapeCharacter) >>
                  \o nonCommentLines(content, idx + 1, escapeCharacter,
                                     lastNonCommentLine)

\* docker-file-parser: the command name of a line of plain text, in capitals
PieceName(text) == IF text = "b" THEN "B" ELSE text

\* docker-file-parser: `remainder + lines[i]`, the text of the line added to
\* what the instruction holds so far
Joined(remainder, line) ==
    IF line.line = "piece"
    THEN [remainder EXCEPT !.args = IF @ = "" THEN line.text
                                    ELSE @ \o " " \o line.text]
    ELSE [remainder EXCEPT !.args = <<@, line>>]

\* the entry of an instruction that ends on line lineno
Command(instruction, lineno) ==
    [name |-> instruction.name, args |-> instruction.args, lineno |-> lineno,
     raw |-> Instruction(instruction.name, instruction.args)]

\* parse of docker-file-parser on the lines without their comments: a line
\* that ends with the escape character is held back as the remainder and put
\* in front of the next line, whatever that line is, and the instruction gets
\* the number of the line it ends on
RECURSIVE parse(_, _, _)
parse(lines, idx, remainder) ==
    IF idx > Len(lines) THEN <<>>
    ELSE LET line == lines[idx]
         IN  CASE line.line = "escape" -> parse(lines, idx + 1, remainder)
               [] line.line = "continued" ->
                    parse(lines, idx + 1,
                          Some(IF remainder = Null
                               THEN [name |-> line.name, args |-> line.args]
                               ELSE Joined(remainder[1], line)))
               [] line.line = "piece" ->
                    LET whole == IF remainder = Null
                                 THEN [name |-> PieceName(line.text), args |-> ""]
                                 ELSE Joined(remainder[1], line)
                    IN  IF line.continues THEN parse(lines, idx + 1, Some(whole))
                        ELSE <<Command(whole, idx)>> \o parse(lines, idx + 1, Null)
               [] line.line = "instruction" ->
                    (IF remainder = Null
                     THEN <<[name |-> line.name, args |-> line.args,
                             lineno |-> idx, raw |-> line]>>
                     ELSE <<Command(Joined(remainder[1], line), idx)>>)
                    \o parse(lines, idx + 1, Null)
               [] line.line = "blank" ->
                    (IF remainder = Null THEN <<>>
                     ELSE <<Command(remainder[1], idx)>>)
                    \o parse(lines, idx + 1, Null)
               [] OTHER ->
                    \* a comment that was kept
                    (IF remainder = Null THEN <<>>
                     ELSE <<Command(Joined(remainder[1], line), idx)>>)
                    \o parse(lines, idx + 1, Null)

\* the entry that comes at position i of the sorted list: sort keeps the
\* order of the entries of one line
RankedAt(entries, i) ==
    CHOOSE j \in 1..Len(entries) :
        Cardinality({k \in 1..Len(entries) :
                        \/ entries[k].lineno < entries[j].lineno
                        \/ entries[k].lineno = entries[j].lineno /\ k < j}) = i - 1

\* entries.sort((a, b) => a.lineno - b.lineno)
RECURSIVE SortedFrom(_, _)
SortedFrom(entries, i) ==
    IF i > Len(entries) THEN <<>>
    ELSE <<entries[RankedAt(entries, i)]>> \o SortedFrom(entries, i + 1)

SortByLineno(entries) == SortedFrom(entries, 1)

parseDockerfile(content) ==
    SortByLineno(parse(nonCommentLines(content, 1, DefaultEscape, Null), 1, Null)
                 \o Directives(content, 1))

\* the words of an argument text, " " between them
RECURSIVE Words(_)
Words(text) ==
    LET space == FirstIndex([i \in 1..Len(text) |-> IF text[i] = " " THEN "=" ELSE "x"],
                            1, TRUE)
    IN  IF text = <<>> THEN <<>>
        ELSE IF space = 0 THEN <<text>>
        ELSE <<SubSeq(text, 1, space - 1)>> \o Words(SubSeq(text, space + 1, Len(text)))

RECURSIVE Concat(_)
Concat(text) == IF text = <<>> THEN "" ELSE text[1] \o Concat(Tail(text))

\* a word as a path: its segments
WordPath(word) == IF word = "/d" THEN Destination ELSE <<word>>

\* the line `NAME ${args}` as docker-file-parser lexes it
Line(name, text) ==
    CASE name = "COPY" ->
           Instruction("COPY", [i \in 1..Len(Words(text)) |->
                                   PathArg(WordPath(Concat(Words(text)[i])))])
      [] name = "RUN" -> Instruction("RUN", Concat(text))
      [] OTHER -> Instruction(name, text)

\* new Dockerfile: the field initialisers, and causesRestart of parse
NewDockerfile ==
    [stages |-> <<>>, liveCmd |-> Null, dockerfileContent |-> <<>>,
     parsedDockerfile |-> <<>>, liveDockerfile |-> Null, hasLiveAction |-> FALSE,
     causesRestart |-> TRUE, error |-> "none"]

\* The restart flag of the action groups.  Dockerfile.parse hands causesRestart
\* to the steps of Stage and calls liveCmdFound; the Stage that takes them is
\* not the one of fs-monitor.ts.  A group is given the value of causesRestart
\* of the step that makes it, and the copy that follows the marker starts a
\* group.
HasRestartFlag(actionGroup) == "restart" \in DOMAIN actionGroup

WithRestartFlag(actionGroup, restart) ==
    IF actionGroup.dependentOnStage
    THEN [copies |-> actionGroup.copies,
          dependentOnStage |-> TRUE,
          commands |-> actionGroup.commands,
          workdir |-> actionGroup.workdir,
          stageDependency |-> actionGroup.stageDependency,
          restart |-> restart]
    ELSE [copies |-> actionGroup.copies,
          dependentOnStage |-> FALSE,
          commands |-> actionGroup.commands,
          workdir |-> actionGroup.workdir,
          restart |-> restart]

RECURSIVE MarkGroups(_, _)
MarkGroups(actionGroups, causesRestart) ==
    IF Len(actionGroups) = 0 THEN <<>>
    ELSE << IF HasRestartFlag(Head(actionGroups)) THEN Head(actionGroups)
            ELSE WithRestartFlag(Head(actionGroups), causesRestart) >>
         \o MarkGroups(Tail(actionGroups), causesRestart)

RECURSIVE MarkNewGroups(_, _)
MarkNewGroups(stgs, causesRestart) ==
    IF Len(stgs) = 0 THEN <<>>
    ELSE << [Head(stgs) EXCEPT !.actionGroups = MarkGroups(@, causesRestart)] >>
         \o MarkNewGroups(Tail(stgs), causesRestart)

liveCmdFound(stage) == [stage EXCEPT !.lastStepWasCopy = FALSE]

\* a live cmd that is never taken as given
liveCmdNeverGiven(df) == FALSE

\* this.liveCmd != null
liveCmdGiven(df) == df.liveCmd # Null

\* a marker that leaves causesRestart as it is
causesRestartKept(causesRestart) == causesRestart

\* line 278: behind the marker nothing causes a restart
causesRestartBehindMarker(causesRestart) == FALSE

\* one iteration of the loop of Dockerfile.parse, the directives included
ParseStep(df, entry) ==
    CASE entry.name = "LIVECMD" ->
           IF liveCmdGiven(df)
           THEN [df EXCEPT !.hasLiveAction = TRUE, !.error = "DockerfileParseError"]
           ELSE [df EXCEPT !.hasLiveAction = TRUE, !.liveCmd = Some(entry.args)]
      [] entry.name \in {"LIVERUN", "LIVECOPY"} ->
           [df EXCEPT !.hasLiveAction = TRUE]
      [] entry.name = "LIVECMD_MARKER" ->
           [df EXCEPT !.hasLiveAction = TRUE,
                      !.causesRestart = causesRestartBehindMarker(@),
                      !.stages = IF Len(@) = 0 THEN @
                                 ELSE SetCurrent(@, liveCmdFound(Last(@)))]
      [] OTHER ->
           LET r == ParseEntry(df.stages, entry)
           IN  [df EXCEPT !.stages = MarkNewGroups(r.stages, df.causesRestart),
                          !.error = r.error]

RECURSIVE ParseSteps(_, _)
ParseSteps(df, entries) ==
    IF Len(entries) = 0 \/ df.error # "none" THEN df
    ELSE ParseSteps(ParseStep(df, Head(entries)), Tail(entries))

\* the end of Dockerfile.parse, up to the test for the automatic generation
ParseEnded(parsed) ==
    IF parsed.error # "none" THEN parsed
    ELSE [parsed EXCEPT !.stages = ParseFinish(parsed.stages)]

ParseStarted(df, dockerfileContent, entries) ==
    ParseSteps([df EXCEPT !.dockerfileContent = dockerfileContent,
                          !.parsedDockerfile = entries,
                          !.stages = <<>>,
                          !.causesRestart = TRUE],
               entries)

\* Dockerfile.parse up to the test for the automatic generation
parseContent(df, dockerfileContent) ==
    ParseEnded(ParseStarted(df, dockerfileContent, parseDockerfile(dockerfileContent)))

\* a generation that goes on behind the live cmd into the next stages
neverEnds(foundLiveCmd) == FALSE

\* the loop of generateLiveDockerfile ends at the FROM after the live cmd
endsAtFrom(foundLiveCmd) == foundLiveCmd

\* one iteration of the loop of generateLiveDockerfile: the lines appended
RewrittenEntry(entry, foundLiveCmd, liveCmd) ==
    CASE entry.name = "RUN" -> IF ~foundLiveCmd THEN <<entry.raw>> ELSE <<>>
      [] entry.name = "LIVECMD" ->
           <<Comment(FALSE, <<"livecmd-marker", "=", "1">>), Line("CMD", entry.args)>>
      [] entry.name = "LIVERUN" -> <<Line("RUN", entry.args)>>
      [] entry.name = "LIVECOPY" -> <<Line("COPY", entry.args)>>
      [] entry.name = "CMD" -> IF liveCmd = Null THEN <<entry.raw>> ELSE <<>>
      [] OTHER -> <<entry.raw>>

\* the loop of generateLiveDockerfile: the lines appended to liveDockerfile
RECURSIVE Rewritten(_, _, _)
Rewritten(entries, foundLiveCmd, liveCmd) ==
    IF Len(entries) = 0 THEN <<>>
    ELSE IF Head(entries).name = "FROM" /\ endsAtFrom(foundLiveCmd) THEN <<>>
    ELSE RewrittenEntry(Head(entries), foundLiveCmd, liveCmd)
         \o Rewritten(Tail(entries),
                      foundLiveCmd \/ Head(entries).name = "LIVECMD", liveCmd)

\* a Dockerfile that is generated anew whatever it holds
alwaysLive(df) == TRUE

\* this.hasLiveAction
hasLiveAction(df) == df.hasLiveAction

\* the end of generateLiveDockerfile: the text is kept and parsed
Regenerated(df, liveDockerfile) ==
    [df |-> parseContent([df EXCEPT !.liveDockerfile = Some(liveDockerfile)],
                         liveDockerfile),
     returned |-> liveDockerfile]

\* generateLiveDockerfile: the Dockerfile object after the call and the text
\* returned; every line appended ends with a newline
generateLiveDockerfile(df) ==
    IF ~hasLiveAction(df)
    THEN [df |-> df, returned |-> df.dockerfileContent]
    ELSE IF df.liveDockerfile # Null
    THEN [df |-> df, returned |-> df.liveDockerfile[1]]
    ELSE Regenerated(df, Append(Rewritten(df.parsedDockerfile, FALSE, df.liveCmd), Blank))

\* the end of Dockerfile.parse: the automatic generation
AutoGenerated(parsed, autoGenerateLiveDockerfile) ==
    IF parsed.error # "none" THEN parsed
    ELSE IF parsed.liveDockerfile = Null /\ autoGenerateLiveDockerfile
    THEN generateLiveDockerfile(parsed).df
    ELSE parsed

\* new Dockerfile(dockerfileContent, autoGenerateLiveDockerfile): parse, with
\* the automatic generation of the live Dockerfile at its end
Dockerfile(dockerfileContent, autoGenerateLiveDockerfile) ==
    AutoGenerated(parseContent(NewDockerfile, dockerfileContent),
                  autoGenerateLiveDockerfile)

-----------------------------------------------------------------------------
(* The Dockerfile compiler and the invalidation engine as a state machine *)

\* no cleanupIntermediateContainers call has been made
NoCleanup == [pc |-> "idle", todo |-> <<>>, n |-> 0]

\* a Dockerfile object is not looked at as a live recipe
NoLive == [pc |-> "none"]

\* Livepush.init has not been called
NoInit == [pc |-> "none", images |-> 0, created |-> 0, result |-> "pending",
           skipContainerRestart |-> FALSE]

\* no watcher has been set up
NoWatcher ==
    /\ changedFiles = {}
    /\ deletedFiles = {}
    /\ pendingSince = NaN
    /\ resumed = {}

\* no path of interest is a directory, pathIsDirectory has not been called
NoTests ==
    /\ dirs = {}
    /\ tests = <<>>

LivepushIdle ==
    /\ cleanup = NoCleanup
    /\ init = NoInit
    /\ livepushRunning = FALSE
    /\ cancelRun = FALSE
    /\ containers = <<>>
    /\ calls = <<>>
    /\ ncancel = 0
    /\ nstops = 0

InitDockerfile ==
    /\ stages = <<>>
    /\ dfpc = "parse"
    /\ nentries = 0
    /\ files = {}
    /\ stagedGroups = <<>>
    /\ worklist = <<>>
    /\ expanded = 0
    /\ NoWatcher
    /\ NoTests
    /\ live = NoLive
    /\ LivepushIdle

\* Dockerfile.parse consumes the next entry; a thrown error leaves no
\* Dockerfile object behind
ParseNext(entry) ==
    /\ dfpc = "parse"
    /\ nentries < MaxEntries
    /\ entry.name = "FROM" => Len(stages) < MaxStages
    /\ LET r == ParseEntry(stages, entry)
       IN  IF r.error = "none"
           THEN stages' = r.stages /\ dfpc' = "parse"
           ELSE stages' = <<>> /\ dfpc' = "error"
    /\ nentries' = nentries + 1
    /\ UNCHANGED <<files, stagedGroups, worklist, expanded, live, lpvars, wvars, mvars>>

\* Dockerfile.parse reaches the end of the entries
ParseEnd ==
    /\ dfpc = "parse"
    /\ stages' = ParseFinish(stages)
    /\ dfpc' = "ready"
    /\ UNCHANGED <<nentries, files, stagedGroups, worklist, expanded, live, lpvars, wvars, mvars>>

\* getActionGroupsFromChangedFiles(fs) up to the first buildDependencyGraph call
SeedChangedFiles(fs) ==
    /\ dfpc = "ready"
    /\ files' = NormalizeAll(fs)
    /\ stagedGroups' = LocalStagedGroups(stages, NormalizeAll(fs))
    /\ worklist' = Ascending(DOMAIN LocalStagedGroups(stages, NormalizeAll(fs)))
    /\ expanded' = 0
    /\ dfpc' = "seeded"
    /\ UNCHANGED <<stages, nentries, live, lpvars, wvars, mvars>>

\* one call of buildDependencyGraph
ExpandStage ==
    /\ dfpc \in {"seeded", "expand"}
    /\ Len(worklist) <= MaxWorklist
    /\ LET r == buildDependencyGraphCall(stages, stagedGroups, worklist)
       IN  /\ stagedGroups' = r.stagedGroups
           /\ worklist' = r.tail
           /\ dfpc' = IF Len(r.tail) = 0 THEN "done" ELSE "expand"
    /\ expanded' = IF Len(worklist) > 0 /\ expanded < MaxExpanded THEN expanded + 1 ELSE expanded
    /\ UNCHANGED <<stages, nentries, files, live, lpvars, wvars, mvars>>

NextDockerfile ==
    \/ \E entry \in Entries : ParseNext(entry)
    \/ ParseEnd
    \/ \E fs \in SUBSET Files : SeedChangedFiles(fs)
    \/ ExpandStage

SpecDockerfile == InitDockerfile /\ [][NextDockerfile]_vars

\* The expansion alone, over the recipes of plain stages, one local copy and
\* copies from the stages 0 and 1.  buildDependencyGraph is synchronous code:
\* a call that has been made runs, and so does the recursive call at its end.
ExpansionEntries ==
    { [name |-> "FROM", args |-> <<"image">>],
      [name |-> "COPY", args |-> <<PathArg(<<"a">>), PathArg(Destination)>>],
      [name |-> "COPY", args |-> <<FromFlag(<<"0">>), PathArg(<<"a">>), PathArg(Destination)>>],
      [name |-> "COPY", args |-> <<FromFlag(<<"1">>), PathArg(<<"a">>), PathArg(Destination)>>] }

NextExpansion ==
    \/ \E entry \in ExpansionEntries : ParseNext(entry)
    \/ ParseEnd
    \/ \E fs \in SUBSET Files : SeedChangedFiles(fs)
    \/ ExpandStage

FairExpansion == WF_vars(ExpandStage)

SpecExpansion == InitDockerfile /\ [][NextExpansion]_vars /\ FairExpansion

-----------------------------------------------------------------------------
(* Livepush (src/lib/livepush.ts) and Container (src/lib/container.ts) *)

\* the Dockerfiles the orchestrator is explored with
TwoStageRecipe ==
    << [name |-> "FROM", args |-> <<"image">>],
       [name |-> "COPY", args |-> <<PathArg(<<"a">>), PathArg(Destination)>>],
       [name |-> "RUN", args |-> "c1"],
       [name |-> "RUN", args |-> "c2"],
       [name |-> "FROM", args |-> <<"image">>],
       [name |-> "COPY", args |-> <<FromFlag(<<"0">>), PathArg(<<"/", "out">>),
                                    PathArg(Destination)>>],
       [name |-> "RUN", args |-> "c3"] >>

From == [name |-> "FROM", args |-> <<"image">>]

\* eleven stages; stage 10 copies from stage 2, which copies the file a
ElevenStageRecipe ==
    << From, From, From,
       [name |-> "COPY", args |-> <<PathArg(<<"a">>), PathArg(Destination)>>],
       From, From, From, From, From, From, From, From,
       [name |-> "COPY", args |-> <<FromFlag(<<"2">>), PathArg(<<"/", "out">>),
                                    PathArg(Destination)>>] >>

Recipes == {TwoStageRecipe, ElevenStageRecipe}

\* the (addedOrUpdated, deleted) arguments of performLivepush
Changes ==
    { <<{}, {}>>,
      <<{<<".", "a">>}, {}>>,
      <<{}, {<<".", "a">>}>>,
      <<{<<"src", "x">>}, {}>> }

ReturnCodes == {0, 1}

\* the records kept for the invocations of performLivepush
CallIds == 1..(IF MaxOverlap > MaxCalls THEN MaxOverlap ELSE MaxCalls)

\* the exec of a command as it is started: nothing demultiplexed yet, nothing
\* buffered in the stdout and stderr pass-throughs, the stream open
NewExec == [sent |-> 0, out |-> 0, err |-> 0, ended |-> FALSE, inspecting |-> FALSE]

\* a performLivepush invocation that has not been made yet
NoCall ==
    [pc |-> "idle", addedOrUpdated |-> {}, deleted |-> {}, tasks |-> <<>>,
     keys |-> <<>>, ki |-> 0, gi |-> 0, ci |-> 0, result |-> "pending", log |-> <<>>,
     cleaned |-> FALSE, exec |-> [NewExec EXCEPT !.ended = TRUE]]

\* _.memoize: the cache of a new memoized function holds no key
NoCache == <<>>

\* the option skipContainerRestart handed to every container alike
NewContainersSameOption(nstages, skipContainerRestart) ==
    [s \in 0..(nstages - 1) |->
        [cancelled |-> FALSE, running |-> TRUE, removed |-> FALSE,
         skipRestart |-> skipContainerRestart, pathIsDirectory |-> NoCache]]

\* Livepush.init: one helper container per stage image, restarts skipped, and
\* the application container for the last stage
NewContainers(nstages, skipContainerRestart) ==
    [s \in 0..(nstages - 1) |->
        [cancelled |-> FALSE,
         running |-> TRUE,
         removed |-> FALSE,
         skipRestart |-> IF s < nstages - 1 THEN TRUE ELSE skipContainerRestart,
         pathIsDirectory |-> NoCache]]

InitLivepushOn(dockerfiles) ==
    /\ stages \in dockerfiles
    /\ live = NoLive
    /\ cleanup = NoCleanup
    /\ dfpc = "ready"
    /\ nentries = 0
    /\ files = {}
    /\ stagedGroups = <<>>
    /\ worklist = <<>>
    /\ expanded = 0
    /\ NoWatcher
    /\ NoTests
    /\ livepushRunning = FALSE
    /\ cancelRun = FALSE
    /\ \E skipContainerRestart \in BOOLEAN :
          /\ containers = NewContainers(Len(stages), skipContainerRestart)
          /\ init = [pc |-> "done", images |-> Len(stages) - 1,
                     created |-> Len(stages) - 1, result |-> "resolved",
                     skipContainerRestart |-> skipContainerRestart]
    /\ calls = [c \in CallIds |-> NoCall]
    /\ ncancel = 0
    /\ nstops = 0

InitLivepushWith(recipes) ==
    InitLivepushOn({ParseFinish(ParseEntries(<<>>, recipe).stages) : recipe \in recipes})

InitLivepush == InitLivepushWith(Recipes)

\* _.keys(tasks).sort(): the keys as strings, in the default sort order
RECURSIVE SortStrings(_)
SortStrings(S) ==
    IF S = {} THEN <<>>
    ELSE LET m == CHOOSE x \in S : \A y \in S \ {x} : StrLess(x, y)
         IN  <<m>> \o SortStrings(S \ {m})

SortedKeys(tasks) == SortStrings({NumberToString(k) : k \in DOMAIN tasks})

\* the stage and the action groups a call is working on
CurrentStage(call) == ParseInt(call.keys[call.ki])
CurrentGroups(call) == call.tasks[CurrentStage(call)]
CurrentGroup(call) == CurrentGroups(call)[call.gi]

Logged(call, entry) == [call EXCEPT !.log = Append(@, entry)]

\* the promise of performLivepush settles; its finally block runs in the action
Settled(call, result) == [call EXCEPT !.pc = "done", !.result = result]

\* performLivepush, the head of the loop over the keys for position ki
LoopHead(call, ki) ==
    IF ki > Len(call.keys) THEN Settled(call, "resolved")
    ELSE IF cancelRun THEN Settled(call, "resolved")
    ELSE [call EXCEPT !.pc = "inspect", !.ki = ki, !.gi = 0, !.ci = 0]

\* executeActionGroups returns to performLivepush
Returned(call) == LoopHead(call, call.ki + 1)

\* executeActionGroups, the head of the loop over the action groups for
\* position gi, and what follows the loop
GroupStart(call, gi) ==
    LET stage == CurrentStage(call)
        groups == CurrentGroups(call)
    IN  IF gi > Len(groups)
        THEN IF ~containers[stage].skipRestart /\ Len(groups) > 0
             THEN [Logged(call, [op |-> "containerRestart", stage |-> stage])
                     EXCEPT !.pc = "restart"]
             ELSE Returned(call)
        ELSE IF groups[gi].dependentOnStage
                /\ groups[gi].stageDependency \notin DOMAIN containers
             THEN Settled(call, "InternalInconsistencyError")
             ELSE [call EXCEPT !.pc = "files", !.gi = gi, !.ci = 0]

\* executeActionGroups, the head of the loop over the commands of the
\* current group for position ci
CommandStart(call, ci) ==
    LET stage == CurrentStage(call)
        group == CurrentGroup(call)
    IN  IF ci > Len(group.commands) THEN GroupStart(call, call.gi + 1)
        ELSE IF containers[stage].cancelled THEN Returned(call)
        ELSE [Logged(call, [op |-> "commandExecute", stage |-> stage,
                            command |-> group.commands[ci]])
                EXCEPT !.pc = "exec", !.ci = ci, !.exec = NewExec]

\* Container.markCancelled on every container
MarkAll(cancelled) ==
    [s \in DOMAIN containers |-> [containers[s] EXCEPT !.cancelled = cancelled]]

\* the reset left out: the containers keep their flags
KeepCancelled == containers

\* performLivepush, after the wait: container.markCancelled(false) on each
ResetCancelled == MarkAll(FALSE)

\* an inspect that reports every container as running
checkRunningAlways(container) == TRUE

\* Container.checkRunning: the state the inspect reports
checkRunning(container) == container.running

\* is the call between the start of its loop and its finally block?
Executing(call) == call.pc \in {"inspect", "files", "exec", "restart"}

\* the runs in flight see a cancel event
Superseded(by) ==
    [c \in CallIds |->
        IF Executing(calls[c]) THEN Logged(calls[c], [op |-> "cancelled", by |-> by])
        ELSE calls[c]]

\* the call record after `step`; the finally block of performLivepush clears
\* both flags when the call has settled
Continue(c, step) ==
    /\ calls' = [calls EXCEPT ![c] = step]
    /\ IF step.pc = "done"
       THEN livepushRunning' = FALSE /\ cancelRun' = FALSE
       ELSE UNCHANGED <<livepushRunning, cancelRun>>

\* performLivepush from `this.livepushRunning = true` to the first await
Begin(call) ==
    LoopHead([call EXCEPT !.keys = SortedKeys(call.tasks)], 1)

\* performLivepush(addedOrUpdated, deleted) is called
PerformLivepush(c, addedOrUpdated, deleted) ==
    /\ dfpc = "ready"
    /\ calls[c].pc = "idle"
    /\ c > 1 => calls[c - 1].pc # "idle"
    /\ LET called == [calls[c] EXCEPT
                        !.addedOrUpdated = addedOrUpdated,
                        !.deleted = deleted,
                        !.cleaned = (cleanup.pc = "done"),
                        !.tasks = getActionGroupsFromChangedFiles(
                                      stages, addedOrUpdated \cup deleted)]
       IN  IF livepushRunning
           THEN \* await this.cancel()
                /\ calls' = [Superseded(c) EXCEPT
                               ![c] = [Logged(called, [op |-> "cancel"])
                                         EXCEPT !.pc = "waiting"]]
                /\ cancelRun' = TRUE
                /\ containers' = MarkAll(TRUE)
                /\ UNCHANGED livepushRunning
           ELSE LET step == Begin(called)
                IN  /\ calls' = [calls EXCEPT ![c] = step]
                    /\ livepushRunning' = (step.pc # "done")
                    /\ cancelRun' = IF step.pc = "done" THEN FALSE ELSE cancelRun
                    /\ UNCHANGED containers
    /\ UNCHANGED <<dfvars, wvars, mvars, ncancel, nstops, cleanup, init>>

\* the polling loop of performLivepush sees cancelRun cleared
WaitOver(c) ==
    /\ calls[c].pc = "waiting"
    /\ ~cancelRun
    /\ containers' = ResetCancelled
    /\ LET step == Begin(calls[c])
       IN  /\ calls' = [calls EXCEPT ![c] = step]
           /\ livepushRunning' = (step.pc # "done")
           /\ cancelRun' = FALSE
    /\ UNCHANGED <<dfvars, wvars, mvars, ncancel, nstops, cleanup, init>>

\* executeActionGroups: checkRunning has answered
Inspected(c) ==
    /\ calls[c].pc = "inspect"
    /\ LET stage == CurrentStage(calls[c])
           seen == Logged(calls[c], [op |-> "inspect", stage |-> stage,
                                     running |-> containers[stage].running])
       IN  IF containers[stage].removed
           THEN \* the Engine answers the inspect of a removed container with
                \* 404, no such container: the promise of inspect() rejects
                Continue(c, Settled(Logged(calls[c],
                    [op |-> "inspectFailed", stage |-> stage]), "RemoteError"))
           ELSE IF ~checkRunning(containers[stage])
                THEN Continue(c, Settled(seen, "ContainerNotRunningError"))
                ELSE Continue(c, GroupStart(seen, 1))
    /\ UNCHANGED <<dfvars, wvars, mvars, containers, ncancel, nstops, cleanup, init>>

\* getLocalOperations: the fromPath of the operations, the files of fs that
\* pass getActionGroupFileFilter
getLocalOperations(fs, actionGroup) == fileMatchesForActionGroup(fs, actionGroup)

\* executeActionGroups: the stage copy, or the upload and the deletes, of the
\* current group are through; `ok` is whether the remote calls succeeded
FilesDone(c, ok) ==
    /\ calls[c].pc = "files"
    /\ LET call == calls[c]
           stage == CurrentStage(call)
           group == CurrentGroup(call)
           sourceGone == IF group.dependentOnStage
                         THEN containers[group.stageDependency].removed
                         ELSE FALSE
       IN  /\ ~ok => (~containers[stage].running \/ sourceGone)
           /\ ok => (~containers[stage].removed /\ ~sourceGone)
           /\ IF ~ok
              THEN Continue(c, Settled(call, "RemoteError"))
              ELSE IF group.dependentOnStage
                   THEN Continue(c, CommandStart(
                            Logged(call, [op |-> "stageCopy", stage |-> stage,
                                          from |-> group.stageDependency]), 1))
                   ELSE Continue(c, CommandStart(
                            Logged(Logged(call,
                                [op |-> "upload", stage |-> stage,
                                 files |-> getLocalOperations(call.addedOrUpdated, group)]),
                                [op |-> "delete", stage |-> stage,
                                 files |-> getLocalOperations(call.deleted, group)]), 1))
    /\ UNCHANGED <<dfvars, wvars, mvars, containers, ncancel, nstops, cleanup, init>>

\* the command after the next one is started
AfterCommandSkipsNext(call, returnCode) ==
    IF returnCode # 0 THEN Returned(call) ELSE CommandStart(call, call.ci + 2)

\* every exit code taken for success: the next command is started
AfterCommandAnyCode(call, returnCode) == CommandStart(call, call.ci + 1)

\* executeActionGroups after runActionGroupCommand: `if (returnCode !== 0) return`
AfterCommand(call, returnCode) ==
    IF returnCode # 0 THEN Returned(call) ELSE CommandStart(call, call.ci + 1)

\* the other steps of a call leave the calls and the flags alone
OnlyCall(c, call) ==
    /\ calls' = [calls EXCEPT ![c] = call]
    /\ UNCHANGED <<dfvars, wvars, mvars, livepushRunning, cancelRun, containers, ncancel, nstops,
                   cleanup, init>>

\* demuxStream: a frame of the exec stream is written to the stdout or to the
\* stderr pass-through
StreamData(c, isStderr) ==
    /\ calls[c].exec.sent < MaxOutput
    /\ ~calls[c].exec.ended
    /\ OnlyCall(c, [calls[c] EXCEPT
                        !.exec.sent = @ + 1,
                        !.exec.out = IF isStderr THEN @ ELSE @ + 1,
                        !.exec.err = IF isStderr THEN @ + 1 ELSE @])

\* waitForCommandCompletion: a 'data' event of stdout or of stderr, handed
\* on as commandOutput
CommandOutput(c, isStderr) ==
    /\ IF isStderr THEN calls[c].exec.err > 0 ELSE calls[c].exec.out > 0
    /\ OnlyCall(c, [Logged(calls[c], [op |-> "commandOutput",
                                     stage |-> CurrentStage(calls[c]),
                                     isStderr |-> isStderr])
                      EXCEPT !.exec.out = IF isStderr THEN @ ELSE @ - 1,
                             !.exec.err = IF isStderr THEN @ - 1 ELSE @])

\* executeCommand: the 'end' of the exec stream ends both pass-throughs
StreamEnd(c) ==
    /\ ~calls[c].exec.ended
    /\ OnlyCall(c, [calls[c] EXCEPT !.exec.ended = TRUE])

\* the exit code asked for as soon as the exec runs
ExecStarted(exec) == TRUE

\* the 'end' of stdout: the stream has ended and stdout has been read empty
StdoutAtEnd(exec) == exec.ended /\ exec.out = 0

\* waitForCommandCompletion: on the 'end' of stdout, exec.inspect() is sent
StdoutEnd(c) ==
    /\ calls[c].pc = "exec"
    /\ ~calls[c].exec.inspecting
    /\ StdoutAtEnd(calls[c].exec)
    /\ OnlyCall(c, [calls[c] EXCEPT !.exec.inspecting = TRUE])

\* the reply to exec.inspect() is an I/O callback: it runs when the chunks
\* buffered in the pass-throughs have been handed to their listeners on the
\* tick queue.  A command without output: the end of the stream, the 'end'
\* of stdout and the inspect are taken together with the reply.
ExitCodeReady(exec) ==
    /\ exec.out = 0
    /\ exec.err = 0
    /\ exec.inspecting \/ (exec.sent = 0 /\ ~exec.ended)

\* runActionGroupCommand: the command has ended with returnCode, or (~ok) the
\* exec could not be made because the container does not run
CommandReturned(c, ok, returnCode) ==
    /\ calls[c].pc = "exec"
    /\ IF ok THEN ExitCodeReady(calls[c].exec) ELSE calls[c].exec = NewExec
    /\ ~ok => ~containers[CurrentStage(calls[c])].running /\ returnCode = 0
    /\ ok => ~containers[CurrentStage(calls[c])].removed
    /\ LET call == calls[c]
           stage == CurrentStage(call)
           done == Logged([call EXCEPT !.exec.inspecting = FALSE,
                                       !.exec.ended = ~call.exec.inspecting \/ @],
                          [op |-> "commandReturn", stage |-> stage,
                           returnCode |-> returnCode,
                           command |-> CurrentGroup(call).commands[call.ci]])
       IN  IF ~ok
           THEN Continue(c, Settled([call EXCEPT !.exec.ended = TRUE], "RemoteError"))
           ELSE Continue(c, AfterCommand(done, returnCode))
    /\ UNCHANGED <<dfvars, wvars, mvars, containers, ncancel, nstops, cleanup, init>>

\* restartContainer: kill and start are through
Restarted(c) ==
    /\ calls[c].pc = "restart"
    /\ LET call == calls[c]
           stage == CurrentStage(call)
       IN  IF ~containers[stage].running
           THEN Continue(c, Settled(call, "RemoteError"))
           ELSE Continue(c, Returned(Logged(call, [op |-> "restarted", stage |-> stage])))
    /\ UNCHANGED <<dfvars, wvars, mvars, containers, ncancel, nstops, cleanup, init>>

\* Livepush.cancel() called by the user
Cancel ==
    /\ ncancel < MaxCancels
    /\ ncancel' = ncancel + 1
    /\ cancelRun' = TRUE
    /\ containers' = MarkAll(TRUE)
    /\ calls' = Superseded(0)
    /\ UNCHANGED <<dfvars, wvars, mvars, livepushRunning, nstops, cleanup, init>>

\* a container stops running (docker stop, a crash)
ContainerStops(s) ==
    /\ nstops < MaxStops
    /\ containers[s].running
    /\ containers' = [containers EXCEPT ![s].running = FALSE]
    /\ nstops' = nstops + 1
    /\ UNCHANGED <<dfvars, wvars, mvars, livepushRunning, cancelRun, calls, ncancel, cleanup, init>>

\* the keys but the last: stages.pop()
AllKeys(keys) == keys

WithoutLast(keys) == SubSeq(keys, 1, Len(keys) - 1)

\* _.keys(this.containers): integer keys come in ascending numeric order
ContainerKeys ==
    LET order == Ascending(DOMAIN containers)
    IN  [i \in DOMAIN order |-> NumberToString(order[i])]

\* cleanupIntermediateContainers() is called: down to the first
\* `await container.cleanup()`
CleanupIntermediateContainers ==
    /\ cleanup.pc # "running"
    /\ cleanup.n < MaxCleanups
    /\ LET todo == WithoutLast(ContainerKeys)
       IN  cleanup' = [pc |-> IF todo = <<>> THEN "done" ELSE "running",
                       todo |-> todo,
                       n |-> cleanup.n + 1]
    /\ UNCHANGED <<dfvars, wvars, mvars, livepushRunning, cancelRun, containers, calls, ncancel, nstops, init>>

\* Container.cleanup: remove({force: true}) is through; a container that is
\* gone already makes it reject, and cleanupIntermediateContainers with it
ContainerRemoved ==
    /\ cleanup.pc = "running"
    /\ LET stageIdx == ParseInt(Head(cleanup.todo))
           rest == Tail(cleanup.todo)
       IN  IF containers[stageIdx].removed
           THEN /\ cleanup' = [cleanup EXCEPT !.pc = "failed"]
                /\ UNCHANGED containers
           ELSE /\ containers' = [containers EXCEPT ![stageIdx].removed = TRUE,
                                                    ![stageIdx].running = FALSE]
                /\ cleanup' = [cleanup EXCEPT
                                  !.pc = IF rest = <<>> THEN "done" ELSE "running",
                                  !.todo = rest]
    /\ UNCHANGED <<dfvars, wvars, mvars, livepushRunning, cancelRun, calls, ncancel, nstops, init>>

\* the stage images that is looked for, compared with the stages themselves
ExpectedImagesAll(nstages) == nstages

\* Livepush.init: `dockerfile.stages.length - 1 !== opts.stageImages.length`
ExpectedImages(nstages) == nstages - 1

\* Livepush.init(opts) is called with `images` stage images: the check of
\* their number, and on to the first `await Container.fromImage`
LivepushInit(images, skipContainerRestart) ==
    /\ init.pc = "none"
    /\ dfpc = "ready"
    /\ IF ExpectedImages(Len(stages)) # images
       THEN /\ init' = [init EXCEPT !.pc = "failed", !.images = images,
                                    !.result = "InvalidArgumentError",
                                    !.skipContainerRestart = skipContainerRestart]
            /\ UNCHANGED containers
       ELSE IF images = 0
            THEN /\ init' = [init EXCEPT !.pc = "done", !.images = images,
                                         !.result = "resolved",
                                         !.skipContainerRestart = skipContainerRestart]
                 /\ containers' = NewContainers(Len(stages), skipContainerRestart)
            ELSE /\ init' = [init EXCEPT !.pc = "creating", !.images = images,
                                         !.skipContainerRestart = skipContainerRestart]
                 /\ UNCHANGED containers
    /\ UNCHANGED <<dfvars, wvars, mvars, livepushRunning, cancelRun, calls, ncancel, nstops, cleanup>>

\* Container.fromImage: the helper container of the next stage image is
\* created and started; after the last one the Livepush object is made
HelperCreated ==
    /\ init.pc = "creating"
    /\ IF init.created + 1 = init.images
       THEN /\ init' = [init EXCEPT !.pc = "done", !.created = @ + 1,
                                    !.result = "resolved"]
            /\ containers' = NewContainers(Len(stages), init.skipContainerRestart)
       ELSE /\ init' = [init EXCEPT !.created = @ + 1]
            /\ UNCHANGED containers
    /\ UNCHANGED <<dfvars, wvars, mvars, livepushRunning, cancelRun, calls, ncancel, nstops, cleanup>>

Next ==
    \/ \E c \in 1..MaxCalls : \E ch \in Changes : PerformLivepush(c, ch[1], ch[2])
    \/ \E c \in CallIds : WaitOver(c)
    \/ \E c \in CallIds : Inspected(c)
    \/ \E c \in CallIds : \E ok \in BOOLEAN : FilesDone(c, ok)
    \/ \E c \in CallIds : \E ok \in BOOLEAN : \E returnCode \in ReturnCodes :
          CommandReturned(c, ok, returnCode)
    \/ \E c \in CallIds : Restarted(c)
    \/ Cancel
    \/ \E s \in DOMAIN containers : ContainerStops(s)

Spec == InitLivepush /\ [][Next]_vars

\* Overlapping calls: the file a changes again and again while the two-stage
\* recipe is being replayed; every container runs and every command exits 0.
InitOverlap ==
    /\ InitLivepush
    /\ Len(stages) = 2

NextOverlap ==
    \/ \E c \in 1..MaxOverlap : PerformLivepush(c, {<<".", "a">>}, {})
    \/ \E c \in CallIds : WaitOver(c)
    \/ \E c \in CallIds : Inspected(c)
    \/ \E c \in CallIds : FilesDone(c, TRUE)
    \/ \E c \in CallIds : CommandReturned(c, TRUE, 0)
    \/ \E c \in CallIds : Restarted(c)

SpecOverlap == InitOverlap /\ [][NextOverlap]_vars

\* The helper containers are cleaned up before, while and after livepushes
\* run, on recipes of one, two and eleven stages.
OneStageRecipe ==
    << From,
       [name |-> "COPY", args |-> <<PathArg(<<"a">>), PathArg(Destination)>>],
       [name |-> "RUN", args |-> "c1"] >>

InitCleanup == InitLivepushWith(Recipes \cup {OneStageRecipe})

NextCleanup ==
    \/ CleanupIntermediateContainers
    \/ ContainerRemoved
    \/ \E c \in 1..MaxCalls : \E ch \in Changes : PerformLivepush(c, ch[1], ch[2])
    \/ \E c \in CallIds : WaitOver(c)
    \/ \E c \in CallIds : Inspected(c)
    \/ \E c \in CallIds : \E ok \in BOOLEAN : FilesDone(c, ok)
    \/ \E c \in CallIds : CommandReturned(c, TRUE, 0)
    \/ \E c \in CallIds : Restarted(c)

SpecCleanup == InitCleanup /\ [][NextCleanup]_vars

\* Livepush.init on a parsed recipe with any number of stage images, and one
\* livepush on the instance it gives.
InitInit ==
    /\ \E recipe \in Recipes \cup {OneStageRecipe} :
          stages = ParseFinish(ParseEntries(<<>>, recipe).stages)
    /\ dfpc = "ready"
    /\ nentries = 0
    /\ files = {}
    /\ stagedGroups = <<>>
    /\ worklist = <<>>
    /\ expanded = 0
    /\ NoWatcher
    /\ NoTests
    /\ live = NoLive
    /\ cleanup = NoCleanup
    /\ init = NoInit
    /\ livepushRunning = FALSE
    /\ cancelRun = FALSE
    /\ containers = <<>>
    /\ calls = [c \in CallIds |-> NoCall]
    /\ ncancel = 0
    /\ nstops = 0

NextInit ==
    \/ \E images \in 0..MaxImages : \E skipContainerRestart \in BOOLEAN :
          LivepushInit(images, skipContainerRestart)
    \/ HelperCreated
    \/ init.pc = "done" /\ \E ch \in Changes : PerformLivepush(1, ch[1], ch[2])
    \/ Inspected(1)
    \/ FilesDone(1, TRUE)
    \/ \E returnCode \in ReturnCodes : CommandReturned(1, TRUE, returnCode)
    \/ Restarted(1)

SpecInit == InitInit /\ [][NextInit]_vars

\* The live recipe: a Dockerfile object made from a text of up to MaxLines
\* lines, and generateLiveDockerfile called on it.
LiveLines ==
    { Instruction("FROM", <<"image">>),
      Instruction("COPY", <<PathArg(<<"src">>), PathArg(Destination)>>),
      Instruction("RUN", "c1"),
      Instruction("CMD", <<"run">>),
      Comment(FALSE, <<"dev-cmd-live", "=", "x">>),
      Comment(TRUE, <<"dev-cmd-live", "=", "y", "=", "z">>),
      Comment(FALSE, <<"dev-run", "=", "c4">>),
      Comment(FALSE, <<"dev-copy", "=", "a", " ", "/d">>),
      Comment(FALSE, <<"livecmd-marker", "=", "1">>),
      Comment(FALSE, <<"escape", "=", "|">>),
      Comment(FALSE, <<"note">>),
      Blank }

Texts == UNION {[1..n -> LiveLines] : n \in 1..MaxLines}

InitLive ==
    /\ stages = <<>>
    /\ dfpc = "parse"
    /\ nentries = 0
    /\ files = {}
    /\ stagedGroups = <<>>
    /\ worklist = <<>>
    /\ expanded = 0
    /\ NoWatcher
    /\ NoTests
    /\ live \in {[pc |-> "new", text |-> text, df |-> NewDockerfile,
                   autoGenerateLiveDockerfile |-> TRUE,
                   returned |-> Null, generations |-> 0] : text \in Texts}
    /\ LivepushIdle

\* the object, or none if its constructor has thrown
Constructed(df, autoGenerateLiveDockerfile) ==
    /\ live' = [live EXCEPT !.pc = IF df.error = "none" THEN "ready" ELSE "error",
                             !.autoGenerateLiveDockerfile = autoGenerateLiveDockerfile,
                             !.df = df]
    /\ stages' = IF df.error = "none" THEN df.stages ELSE <<>>
    /\ dfpc' = IF df.error = "none" THEN "ready" ELSE "error"

\* new Dockerfile(text, autoGenerateLiveDockerfile)
Construct(autoGenerateLiveDockerfile) ==
    /\ live.pc = "new"
    /\ Constructed(Dockerfile(live.text, autoGenerateLiveDockerfile),
                   autoGenerateLiveDockerfile)
    /\ UNCHANGED <<nentries, files, stagedGroups, worklist, expanded, lpvars, wvars, mvars>>

\* the text returned, or the error thrown by the parse of the generated text
Generated(r) ==
    /\ live' = [live EXCEPT !.pc = IF r.df.error = "none" THEN "ready" ELSE "thrown",
                             !.df = r.df,
                             !.returned = IF r.df.error = "none"
                                          THEN Some(r.returned) ELSE Null,
                             !.generations = @ + 1]
    /\ stages' = r.df.stages

\* a call of generateLiveDockerfile on the object
GenerateLiveDockerfile ==
    /\ live.pc = "ready"
    /\ live.generations < MaxGenerations
    /\ Generated(generateLiveDockerfile(live.df))
    /\ UNCHANGED <<dfpc, nentries, files, stagedGroups, worklist, expanded, lpvars, wvars, mvars>>

NextLive ==
    \/ \E autoGenerateLiveDockerfile \in BOOLEAN : Construct(autoGenerateLiveDockerfile)
    \/ GenerateLiveDockerfile

SpecLive == InitLive /\ [][NextLive]_vars

\* The recipes of up to MaxCommandLines lines out of two commands, a copy and
\* a working directory, constructed the same way.
CommandLines ==
    { Instruction("FROM", <<"image">>),
      Instruction("COPY", <<PathArg(<<"src">>), PathArg(Destination)>>),
      Instruction("RUN", "c1"),
      Instruction("RUN", "c2"),
      Instruction("WORKDIR", <<"/", "w">>) }

CommandTexts == UNION {[1..n -> CommandLines] : n \in 1..MaxCommandLines}

InitCommands ==
    /\ stages = <<>>
    /\ dfpc = "parse"
    /\ nentries = 0
    /\ files = {}
    /\ stagedGroups = <<>>
    /\ worklist = <<>>
    /\ expanded = 0
    /\ NoWatcher
    /\ NoTests
    /\ live \in {[pc |-> "new", text |-> text, df |-> NewDockerfile,
                   autoGenerateLiveDockerfile |-> TRUE,
                   returned |-> Null, generations |-> 0] : text \in CommandTexts}
    /\ LivepushIdle

SpecCommands == InitCommands /\ [][NextLive]_vars

\* One stage of two action groups, the first with two commands.
OrderRecipe ==
    << [name |-> "FROM", args |-> <<"image">>],
       [name |-> "COPY", args |-> <<PathArg(<<"a">>), PathArg(Destination)>>],
       [name |-> "RUN", args |-> "c1"],
       [name |-> "RUN", args |-> "c2"],
       [name |-> "COPY", args |-> <<PathArg(<<"src">>), PathArg(Destination)>>],
       [name |-> "RUN", args |-> "c3"] >>

InitOrder == InitLivepushWith({OrderRecipe})

SpecOrder == InitOrder /\ [][Next]_vars

\* A recipe with a live cmd: the copy of a and its command before the
\* directive, the copy of src behind it
LiveRecipe ==
    << Instruction("FROM", <<"image">>),
       Instruction("COPY", <<PathArg(<<"a">>), PathArg(Destination)>>),
       Instruction("RUN", "c1"),
       Comment(FALSE, <<"dev-cmd-live", "=", "x">>),
       Instruction("COPY", <<PathArg(<<"src">>), PathArg(Destination)>>) >>

InitLiveRuns == InitLivepushOn({Dockerfile(LiveRecipe, TRUE).stages})

SpecLiveRuns == InitLiveRuns /\ [][Next]_vars

\* The events of the commands: the two-stage recipe replayed by one call,
\* each command writing up to MaxOutput chunks to stdout and stderr.
NextEvents ==
    \/ PerformLivepush(1, {<<".", "a">>}, {})
    \/ Inspected(1)
    \/ FilesDone(1, TRUE)
    \/ \E isStderr \in BOOLEAN : StreamData(1, isStderr)
    \/ \E isStderr \in BOOLEAN : CommandOutput(1, isStderr)
    \/ StreamEnd(1)
    \/ StdoutEnd(1)
    \/ \E returnCode \in ReturnCodes : CommandReturned(1, TRUE, returnCode)
    \/ Restarted(1)

SpecEvents == InitOverlap /\ [][NextEvents]_vars

\* Two calls and no more: every remote operation terminates, the polling loop
\* of a waiting call keeps polling, every container runs, every command exits 0.
NextTwoCalls ==
    \/ \E c \in 1..2 : \E ch \in Changes : PerformLivepush(c, ch[1], ch[2])
    \/ \E c \in 1..2 : WaitOver(c)
    \/ \E c \in 1..2 : Inspected(c)
    \/ \E c \in 1..2 : FilesDone(c, TRUE)
    \/ \E c \in 1..2 : CommandReturned(c, TRUE, 0)
    \/ \E c \in 1..2 : Restarted(c)

FairTwoCalls ==
    \A c \in 1..2 :
        /\ WF_vars(WaitOver(c))
        /\ WF_vars(Inspected(c))
        /\ WF_vars(FilesDone(c, TRUE))
        /\ WF_vars(CommandReturned(c, TRUE, 0))
        /\ WF_vars(Restarted(c))

SpecTwoCalls == InitLivepush /\ [][NextTwoCalls]_vars /\ FairTwoCalls

\* Two calls and cancel() between them: every remote operation terminates,
\* the polling loop of a waiting call keeps polling, every container runs,
\* every command exits 0.
NextCancels ==
    \/ \E c \in 1..2 : \E ch \in Changes : PerformLivepush(c, ch[1], ch[2])
    \/ \E c \in 1..2 : WaitOver(c)
    \/ \E c \in 1..2 : Inspected(c)
    \/ \E c \in 1..2 : FilesDone(c, TRUE)
    \/ \E c \in 1..2 : CommandReturned(c, TRUE, 0)
    \/ \E c \in 1..2 : Restarted(c)
    \/ Cancel

SpecCancels == InitLivepush /\ [][NextCancels]_vars /\ FairTwoCalls

\* The watcher: getExecutor hands its own two arrays to every performLivepush,
\* so a call in progress reads what they hold when it reads them.
CallsMade == Cardinality({c \in CallIds : calls[c].pc # "idle"})

\* the timer of _.debounce is running: executor() has been called since the
\* last time actualExecutor was invoked
TimerPending == pendingSince = CallsMade

\* the invocations of actualExecutor whose performLivepush has settled and
\* that have not gone on yet: they go on before anything else happens
ToResume == {c \in CallIds : calls[c].pc = "done" /\ c \notin resumed}

\* the arguments of the calls made so far are the arrays themselves
Aliased(changed, deleted) ==
    [c \in CallIds |->
        IF calls[c].pc = "idle" THEN calls[c]
        ELSE [calls[c] EXCEPT !.addedOrUpdated = changed, !.deleted = deleted]]

\* the arrays after `length = 0`
Emptied(paths) == {}

\* chokidar reports a path (add or change: isDeleted false, unlink: true):
\* executor pushes it and calls the debounced actualExecutor
WatcherEvent(path, isDeleted) ==
    /\ ToResume = {}
    /\ changedFiles' = IF isDeleted THEN changedFiles ELSE changedFiles \cup {path}
    /\ deletedFiles' = IF isDeleted THEN deletedFiles \cup {path} ELSE deletedFiles
    /\ pendingSince' = CallsMade
    /\ calls' = Aliased(changedFiles', deletedFiles')
    /\ UNCHANGED <<dfvars, mvars, resumed, livepushRunning, cancelRun, containers,
                   ncancel, nstops, cleanup, init>>

\* the timer of _.debounce fires: actualExecutor calls performLivepush with
\* the two arrays
TimerFires(c) ==
    /\ ToResume = {}
    /\ TimerPending
    /\ PerformLivepush(c, changedFiles, deletedFiles)

\* actualExecutor goes on behind `await livepush.performLivepush(...)`: both
\* arrays are emptied; a rejection ends it before that
ExecutorResumes(c) ==
    /\ c \in ToResume
    /\ resumed' = resumed \cup {c}
    /\ IF calls[c].result = "resolved"
       THEN /\ changedFiles' = Emptied(changedFiles)
            /\ deletedFiles' = Emptied(deletedFiles)
            /\ calls' = Aliased(changedFiles', deletedFiles')
       ELSE UNCHANGED <<changedFiles, deletedFiles, calls>>
    /\ UNCHANGED <<dfvars, mvars, pendingSince, livepushRunning, cancelRun, containers,
                   ncancel, nstops, cleanup, init>>

\* the paths chokidar reports
WatchedFiles == { <<"a">>, <<"src", "x">> }

InitWatcher == InitLivepushWith({OrderRecipe})

\* every container runs, every command exits 0
NextWatcher ==
    \/ \E path \in WatchedFiles : \E isDeleted \in BOOLEAN : WatcherEvent(path, isDeleted)
    \/ \E c \in 1..MaxWatcherCalls : TimerFires(c)
    \/ \E c \in CallIds : ExecutorResumes(c)
    \/ \E c \in CallIds : ToResume = {} /\ WaitOver(c)
    \/ \E c \in CallIds : ToResume = {} /\ Inspected(c)
    \/ \E c \in CallIds : ToResume = {} /\ FilesDone(c, TRUE)
    \/ \E c \in CallIds : ToResume = {} /\ CommandReturned(c, TRUE, 0)
    \/ \E c \in CallIds : ToResume = {} /\ Restarted(c)

SpecWatcher == InitWatcher /\ [][NextWatcher]_vars

\* parseDockerfile on its own: texts of up to MaxParserLines lines with
\* comments, directives and instructions of one line and of several.
ParserLines ==
    { Blank,
      Comment(FALSE, <<"note">>),
      Comment(FALSE, <<"dev-run", "=", "x">>),
      Comment(FALSE, <<"dev-env", "=", "K", "=", "1">>),
      Instruction("RUN", "c1"),
      Continued("RUN", "a"),
      Piece("b", FALSE) }

ParserTexts == UNION {[1..n -> ParserLines] : n \in 1..MaxParserLines}

InitParser ==
    /\ stages = <<>>
    /\ dfpc = "parse"
    /\ nentries = 0
    /\ files = {}
    /\ stagedGroups = <<>>
    /\ worklist = <<>>
    /\ expanded = 0
    /\ NoWatcher
    /\ NoTests
    /\ live \in {[pc |-> "text", text |-> text, entries |-> <<>>] : text \in ParserTexts}
    /\ LivepushIdle

\* parseDockerfile(content) is called on the text
ParseDockerfile ==
    /\ live.pc = "text"
    /\ live' = [live EXCEPT !.pc = "parsed", !.entries = parseDockerfile(live.text)]
    /\ UNCHANGED <<stages, dfpc, nentries, files, stagedGroups, worklist, expanded,
                   lpvars, wvars, mvars>>

NextParser == ParseDockerfile

SpecParser == InitParser /\ [][NextParser]_vars

\* pathIsDirectory: the destinations whose kind the containers are asked for
TestPaths == {Destination, <<"/", "out">>}

\* the memoized function called afresh whatever the cache holds
neverCached(cache, path) == FALSE

\* _.memoize: cache.has(key), the key being the first argument
isCached(cache, path) == path \in DOMAIN cache

\* /usr/bin/test -d path: exit code 0 when the path is a directory now
TestOutcome(s, path) == IF <<s, path>> \in dirs THEN "directory" ELSE "other"

\* the promise of every call that got promise id settles with outcome
Answered(id, outcome) ==
    [i \in DOMAIN tests |->
        IF tests[i].promise = id THEN [tests[i] EXCEPT !.answer = outcome]
        ELSE tests[i]]

\* container.pathIsDirectory(path) is called (by getLocalOperations, by a
\* stage copy) on the container of stage s: the cached promise when the cache
\* has the path, else executeCommandDetached is started and its promise cached
PathIsDirectory(s, path) ==
    /\ Len(tests) < MaxTests
    /\ LET cache == containers[s].pathIsDirectory
           id == Len(tests) + 1
       IN  IF isCached(cache, path)
           THEN /\ tests' = Append(tests, [stage |-> s, path |-> path, exec |-> FALSE,
                                           promise |-> cache[path].id,
                                           answer |-> cache[path].outcome])
                /\ UNCHANGED containers
           ELSE /\ tests' = Append(tests, [stage |-> s, path |-> path, exec |-> TRUE,
                                           promise |-> id, answer |-> "pending"])
                /\ containers' = [containers EXCEPT ![s].pathIsDirectory =
                        [q \in DOMAIN cache \cup {path} |->
                            IF q = path THEN [id |-> id, outcome |-> "pending"]
                            ELSE cache[q]]]
    /\ UNCHANGED <<dfvars, wvars, dirs, livepushRunning, cancelRun, calls, ncancel,
                   nstops, cleanup, init>>

\* executeCommandDetached: the exec of test -d has ended and the promise
\* settles with `output === 0`, or (~ok) the exec could not be made because
\* the container does not run and the promise rejects
TestReturned(s, path, ok) ==
    /\ isCached(containers[s].pathIsDirectory, path)
    /\ containers[s].pathIsDirectory[path].outcome = "pending"
    /\ ok = containers[s].running
    /\ LET outcome == IF ok THEN TestOutcome(s, path) ELSE "rejected"
       IN  /\ containers' = [containers EXCEPT
                                ![s].pathIsDirectory[path].outcome = outcome]
           /\ tests' = Answered(containers[s].pathIsDirectory[path].id, outcome)
    /\ UNCHANGED <<dfvars, wvars, dirs, livepushRunning, cancelRun, calls, ncancel,
                   nstops, cleanup, init>>

\* a command or an upload makes the path a directory of the container, or
\* removes the directory
FilesystemChanges(s, path) ==
    /\ dirs' = IF <<s, path>> \in dirs THEN dirs \ {<<s, path>>}
               ELSE dirs \cup {<<s, path>>}
    /\ UNCHANGED <<dfvars, wvars, tests, lpvars>>

InitMemo == InitLivepushWith({TwoStageRecipe})

NextMemo ==
    \/ \E s \in DOMAIN containers : \E path \in TestPaths : PathIsDirectory(s, path)
    \/ \E s \in DOMAIN containers : \E path \in TestPaths : \E ok \in BOOLEAN :
          TestReturned(s, path, ok)
    \/ \E s \in DOMAIN containers : \E path \in TestPaths : FilesystemChanges(s, path)
    \/ \E s \in DOMAIN containers : ContainerStops(s)

SpecMemo == InitMemo /\ [][NextMemo]_vars


-----------------------------------------------------------------------------
(* Properties of the orchestrator *)

\* the entries of a log with operation op, in order
RECURSIVE OpsOf(_, _)
OpsOf(log, op) ==
    IF log = <<>> THEN <<>>
    ELSE IF log[1].op = op THEN <<log[1]>> \o OpsOf(Tail(log), op)
    ELSE OpsOf(Tail(log), op)

ExecutingCalls == {c \in CallIds : Executing(calls[c])}

\* C1: for any number of overlapping performLivepush calls, at most one call
\* is inside executeActionGroups of a stage container at any instant.
C1_AtMostOneExecuting == Cardinality(ExecutingCalls) <= 1

\* C2: once a performLivepush call has emitted the cancel event for the runs
\* in flight, a superseded run emits no further commandExecute event.
C2_NoCommandAfterCancel ==
    \A c \in CallIds :
        \A i, j \in DOMAIN calls[c].log :
            /\ calls[c].log[i].op = "cancelled"
            /\ calls[c].log[i].by # 0
            /\ i < j
            => calls[c].log[j].op # "commandExecute"

\* the commands of every action group of the tasks, stage after stage
RECURSIVE CommandsOfGroups(_)
CommandsOfGroups(groups) ==
    IF groups = <<>> THEN <<>>
    ELSE groups[1].commands \o CommandsOfGroups(Tail(groups))

RECURSIVE CommandsOfKeys(_, _)
CommandsOfKeys(tasks, keys) ==
    IF keys = <<>> THEN <<>>
    ELSE CommandsOfGroups(tasks[ParseInt(keys[1])]) \o CommandsOfKeys(tasks, Tail(keys))

AllCommands(tasks) == CommandsOfKeys(tasks, SortedKeys(tasks))

CommandsExecuted(call) ==
    LET ex == OpsOf(call.log, "commandExecute")
    IN  [i \in DOMAIN ex |-> ex[i].command]

\* C3: a call made while one other run is in flight, with no further call,
\* every remote operation terminating, every container running and every
\* command exiting 0, eventually starts, executes every command of all of
\* its action groups, and returns.
C3_SecondCallCompletes ==
    (calls[2].pc = "waiting")
        ~> (/\ calls[2].pc = "done"
            /\ calls[2].result = "resolved"
            /\ CommandsExecuted(calls[2]) = AllCommands(calls[2].tasks))

C3_Witness ==
    /\ calls[1].pc = "done"
    /\ "cancelled" \in {calls[1].log[i].op : i \in DOMAIN calls[1].log}
    /\ calls[2].pc = "done"
    /\ calls[2].result = "resolved"
    /\ Len(CommandsExecuted(calls[2])) = 3
    /\ CommandsExecuted(calls[2]) = AllCommands(calls[2].tasks)

\* the stages a call has entered executeActionGroups for, in order
StagesEntered(call) ==
    LET ins == OpsOf(call.log, "inspect")
    IN  [i \in DOMAIN ins |-> ins[i].stage]

\* C4: within one run the invalidated stages are executed in ascending numeric
\* stage index, whatever the number of stages.
C4_AscendingStageOrder ==
    \A c \in CallIds :
        LET entered == StagesEntered(calls[c])
        IN  \A i, j \in DOMAIN entered : i < j => entered[i] < entered[j]

\* C5: a performLivepush call whose changes invalidate no action group does
\* nothing in any state, a run in flight included: no exec, upload, restart
\* or event, and the orchestrator flags and the cancellation flags of the
\* containers stay as they are.
C5_EmptyCallIsNoOp ==
    [][\A c \in CallIds :
          /\ calls[c].pc = "idle"
          /\ calls'[c].pc # "idle"
          /\ DOMAIN calls'[c].tasks = {}
          => /\ UNCHANGED <<livepushRunning, cancelRun, containers>>
             /\ calls'[c].log = <<>>
             /\ \A d \in CallIds \ {c} : calls'[d] = calls[d]]_vars

\* C10: executeActionGroups on a container that is not running rejects with
\* ContainerNotRunningError before any upload, delete, stage copy, exec, event
\* or restart, and performLivepush hands the error to its caller.
C10_NotRunningRejects ==
    \A c \in CallIds :
        \A i \in DOMAIN calls[c].log :
            calls[c].log[i].op = "inspect" /\ ~calls[c].log[i].running
            => /\ i = Len(calls[c].log)
               /\ calls[c].pc = "done"
               /\ calls[c].result = "ContainerNotRunningError"

C10_Witness ==
    \E c \in CallIds :
        /\ calls[c].pc = "done"
        /\ calls[c].result = "ContainerNotRunningError"
        /\ Len(calls[c].log) > 1
        /\ ~Last(calls[c].log).running

\* the log without the marks of the cancel events seen
Operations(log) == SelectSeq(log, LAMBDA entry : entry.op # "cancelled")

\* C11: after a command exits with a non-zero code, executeActionGroups runs
\* no further command of the group and no later group, does not restart, and
\* resolves: the run goes on to the next stage or ends resolved.
C11_FailedCommandEndsGroups ==
    \A c \in CallIds :
        LET ops == Operations(calls[c].log)
        IN  \A i \in DOMAIN ops :
                ops[i].op = "commandReturn" /\ ops[i].returnCode # 0
                => IF i = Len(ops)
                   THEN \/ calls[c].pc = "inspect"
                        \/ calls[c].pc = "done" /\ calls[c].result = "resolved"
                   ELSE ops[i + 1].op = "inspect" /\ ops[i + 1].stage # ops[i].stage

C11_Witness ==
    \E c \in CallIds :
        LET ops == Operations(calls[c].log)
        IN  /\ calls[c].pc = "done"
            /\ calls[c].result = "resolved"
            /\ \E i \in DOMAIN ops :
                  /\ ops[i].op = "commandReturn"
                  /\ ops[i].returnCode # 0
                  /\ ops[i].command = "c1"
                  /\ i < Len(ops)

\* the index of the terminal stage
TerminalStage == Len(stages) - 1

RestartOps == {"containerRestart", "restarted"}

\* C13: helper containers are never restarted and announce no restart, and
\* with skipContainerRestart the terminal container is not restarted either.
C13_HelpersNeverRestart ==
    \A c \in CallIds :
        \A i \in DOMAIN calls[c].log :
            calls[c].log[i].op \in RestartOps
            => /\ calls[c].log[i].stage = TerminalStage
               /\ ~containers[TerminalStage].skipRestart

C13_Witness ==
    \E c \in CallIds :
        LET log == calls[c].log
        IN  /\ calls[c].pc = "done"
            /\ TerminalStage > 0
            /\ \E i, j \in DOMAIN log :
                  /\ i < j
                  /\ log[i].op = "commandReturn" /\ log[i].stage = 0
                  /\ log[j].op = "restarted" /\ log[j].stage = TerminalStage

Helpers == {s \in DOMAIN containers : s < TerminalStage}

\* C14: cleanupIntermediateContainers removes every helper container and never
\* the terminal one, whatever the number of stages.
C14_CleanupRemovesHelpers ==
    /\ ~containers[TerminalStage].removed
    /\ cleanup.pc = "done" => \A s \in Helpers : containers[s].removed

C14_Witness ==
    /\ cleanup.pc = "done"
    /\ Cardinality(Helpers) = 10
    /\ \A s \in Helpers : containers[s].removed

\* the operations that change a container
ChangeOps == {"upload", "delete", "stageCopy", "commandExecute", "commandReturn",
              "containerRestart", "restarted"}

\* C15: after cleanupIntermediateContainers a performLivepush whose tasks
\* involve a helper stage fails with ContainerNotRunningError and changes
\* nothing in the terminal container.
C15_AfterCleanupNotRunning ==
    \A c \in CallIds :
        /\ calls[c].pc = "done"
        /\ calls[c].cleaned
        /\ \E s \in DOMAIN calls[c].tasks : s < TerminalStage
        => /\ calls[c].result = "ContainerNotRunningError"
           /\ \A i \in DOMAIN calls[c].log :
                 calls[c].log[i].op \in ChangeOps
                 => calls[c].log[i].stage # TerminalStage

\* C16: Livepush.init rejects with InvalidArgumentError whenever the number of
\* stage images differs from the number of stages minus one, and then no
\* helper container has been created or started.
C16_InitChecksImages ==
    init.pc # "none" /\ init.images # Len(stages) - 1
    => /\ init.pc = "failed"
       /\ init.result = "InvalidArgumentError"
       /\ init.created = 0
       /\ containers = <<>>

C16_Witness ==
    /\ init.pc = "failed"
    /\ init.result = "InvalidArgumentError"
    /\ init.images = Len(stages)
    /\ init.created = 0

\* the events of the commands among the operations of a call
CommandEvents(log) ==
    SelectSeq(log, LAMBDA entry :
        entry.op \in {"commandExecute", "commandOutput", "commandReturn"})

\* the last commandExecute or commandReturn before position i, 0 if none
LastBoundary(events, i) ==
    LET before == {j \in 1..(i - 1) : events[j].op # "commandOutput"}
    IN  IF before = {} THEN 0 ELSE CHOOSE j \in before : \A k \in before : k <= j

Interrupted(log) ==
    \E i \in DOMAIN log :
        \/ log[i].op \in {"cancelled", "cancel"}
        \/ log[i].op = "commandReturn" /\ log[i].returnCode # 0

\* C12: with a live cmd in the recipe, a livepush whose applied action groups
\* all have restart = false announces no restart and does not kill and start
\* the container; one that applies a group with restart = true to its end
\* restarts the terminal container once, unless the restart is suppressed.
C12_RestartOnlyBeforeMarker ==
    \A c \in CallIds :
        LET log == calls[c].log
            restarts(s, op) == {i \in DOMAIN log : log[i].op = op /\ log[i].stage = s}
        IN  \A s \in DOMAIN calls[c].tasks :
                LET groups == calls[c].tasks[s]
                IN  /\ (\A g \in DOMAIN groups : ~groups[g].restart)
                       => \A op \in RestartOps : restarts(s, op) = {}
                    /\ /\ \E g \in DOMAIN groups : groups[g].restart
                       /\ s = TerminalStage
                       /\ ~containers[s].skipRestart
                       /\ calls[c].pc = "done"
                       /\ calls[c].result = "resolved"
                       /\ ~Interrupted(log)
                       /\ ncancel = 0
                       => \A op \in RestartOps : Cardinality(restarts(s, op)) = 1

-----------------------------------------------------------------------------
(* Properties of the live recipe *)

\* a comment line `#<directive>=...` of one of the directives given
IsDirective(line, directives) ==
    /\ line.line = "comment"
    /\ Len(line.body) >= 3
    /\ line.body[1] \in directives
    /\ line.body[2] = "="

DevDirectives == {"dev-cmd-live", "dev-run", "dev-copy"}

LinesWith(text, directives) == {i \in DOMAIN text : IsDirective(text[i], directives)}

FromLines(text) ==
    {i \in DOMAIN text : text[i].line = "instruction" /\ text[i].name = "FROM"}

\* a step that is a call of generateLiveDockerfile that returns
GenerateReturns ==
    /\ live.pc = "ready"
    /\ live'.pc = "ready"
    /\ live'.generations = live.generations + 1

\* the call returns the text the object was made from and changes no stage
ReturnsVerbatim ==
    /\ live'.returned = Some(live.text)
    /\ stages' = stages

\* C18 as stated: for every recipe without a #dev-* directive,
\* generateLiveDockerfile returns the input text verbatim and leaves the
\* parsed stages unchanged.
C18_NoDevDirectiveVerbatim ==
    [][GenerateReturns /\ LinesWith(live.text, DevDirectives) = {}
       => ReturnsVerbatim]_vars

\* C18 amended: for every recipe without a #dev-* directive and without a
\* #livecmd-marker directive, generateLiveDockerfile returns the input text
\* verbatim and leaves the parsed stages unchanged.
C18_NoDirectiveVerbatim ==
    [][GenerateReturns
       /\ LinesWith(live.text, DevDirectives \cup {"livecmd-marker"}) = {}
       => ReturnsVerbatim]_vars

\* a recipe with an ordinary comment, a copy and a command, no directive in
\* it, returned as it was given
C18_Witness ==
    /\ live.pc = "ready"
    /\ live.generations > 0
    /\ LinesWith(live.text, DevDirectives \cup {"livecmd-marker"}) = {}
    /\ \E i \in DOMAIN live.text : live.text[i].line = "comment"
    /\ live.returned = Some(live.text)
    /\ Len(stages) = 1
    /\ Len(stages[1].actionGroups) = 1
    /\ Len(stages[1].actionGroups[1].commands) = 1

\* the recipes whose one live cmd directive is in a stage that is not the
\* last: a FROM before it and a FROM after it
LiveCmdInHelperStage(text) ==
    /\ Cardinality(LinesWith(text, {"dev-cmd-live"})) = 1
    /\ \E l \in LinesWith(text, {"dev-cmd-live"}) :
          /\ \E i \in FromLines(text) : i < l
          /\ \E j \in FromLines(text) : l < j

\* the stages up to the one of the live cmd
StagesUpToLiveCmd(text) ==
    {i \in FromLines(text) : \A l \in LinesWith(text, {"dev-cmd-live"}) : i < l}

\* C19: with the live cmd directive in a stage that is not the last, the
\* generated live Dockerfile has the stages up to that of the live cmd and
\* nothing that starts a stage behind the marker and the CMD put in place of
\* the directive, and the stages of the object are those parsed from the
\* generated Dockerfile.
C19_LaterStagesDropped ==
    live.pc = "ready" /\ live.df.liveDockerfile # Null /\ LiveCmdInHelperStage(live.text)
    => LET generated == live.df.liveDockerfile[1]
       IN  /\ Cardinality(FromLines(generated))
                = Cardinality(StagesUpToLiveCmd(live.text))
           /\ \E m \in LinesWith(generated, {"livecmd-marker"}) :
                 /\ generated[m + 1] = Instruction("CMD", live.df.liveCmd[1])
                 /\ \A i \in FromLines(generated) : i < m
           /\ Len(stages) = Cardinality(StagesUpToLiveCmd(live.text))
           /\ stages = ParseEnded(ParseStarted(NewDockerfile, generated,
                                               parseDockerfile(generated))).stages
           /\ live.df.dockerfileContent = generated

\* the live cmd in the first of two stages, a command in the second
C19_Witness ==
    /\ live.pc = "ready"
    /\ live.df.liveDockerfile # Null
    /\ LiveCmdInHelperStage(live.text)
    /\ live.text[Len(live.text)] = Instruction("RUN", "c1")
    /\ Cardinality(FromLines(live.text)) = 2
    /\ Len(stages) = 1

\* the recipe without its line i
WithoutLine(text, i) == SubSeq(text, 1, i - 1) \o SubSeq(text, i + 1, Len(text))

\* C20: a recipe with more than one live cmd directive is rejected with
\* DockerfileParseError; with exactly one, in whatever stage, the live cmd of
\* the object is all the text after the first "=" of the directive, and the
\* recipe is rejected only if it is rejected without the directive too.
C20_SingleLiveCmd ==
    LET liveCmds == LinesWith(live.text, {"dev-cmd-live"})
    IN  /\ live.pc # "new" /\ Cardinality(liveCmds) > 1
           => /\ live.pc = "error"
              /\ live.df.error = "DockerfileParseError"
        /\ live.pc # "new" /\ Cardinality(liveCmds) = 1
           => \A l \in liveCmds :
                 IF live.pc # "error"
                 THEN live.df.liveCmd
                        = Some(SubSeq(live.text[l].body, 3, Len(live.text[l].body)))
                 ELSE Dockerfile(WithoutLine(live.text, l),
                                 live.autoGenerateLiveDockerfile).error # "none"

\* a live cmd with a "=" in its text, accepted in the first of two stages
C20_Witness ==
    /\ live.pc = "ready"
    /\ Cardinality(FromLines(live.text)) = 2
    /\ \E l \in LinesWith(live.text, {"dev-cmd-live"}) :
          /\ \E j \in FromLines(live.text) : l < j
          /\ live.df.liveCmd = Some(<<"y", "=", "z">>)

-----------------------------------------------------------------------------
(* Properties of the invalidation engine *)

Min(S) == CHOOSE x \in S : \A y \in S : x <= y
Max(S) == CHOOSE x \in S : \A y \in S : x >= y

StageAt(idx) == stages[idx + 1]
StageIndices == {stages[i].index : i \in 1..Len(stages)}

\* positions of the local groups of a stage with a copy source matching a file of fs
LocalTriggers(stage, fs) ==
    {k \in 1..Len(stage.actionGroups) :
        /\ ~stage.actionGroups[k].dependentOnStage
        /\ \E i \in 1..Len(stage.actionGroups[k].copies) : \E f \in fs :
              copyMatchesFile(stage.actionGroups[k].copies[i], f)}

\* positions of the stage-copy groups of a stage that copy from stage S
StageTriggers(stage, S) ==
    {k \in 1..Len(stage.actionGroups) :
        /\ stage.actionGroups[k].dependentOnStage
        /\ \E i \in 1..Len(stage.actionGroups[k].copies) :
              stage.actionGroups[k].copies[i].sourceStage = S}

SuffixFrom(stage, k) == SubSeq(stage.actionGroups, k, Len(stage.actionGroups))

\* C6: getActionGroupsForChangedFiles returns, for every stage, nothing when
\* no local copy source matches a changed file, and otherwise exactly the
\* groups from the first local group with a matching copy source to the end
\* of the stage.  (After the first loop of getActionGroupsFromChangedFiles
\* stagedGroups holds the non-empty results, stage by stage.)
C6_ChangedFilesSuffix ==
    dfpc = "seeded" =>
        \A i \in 1..Len(stages) :
            LET T == LocalTriggers(stages[i], files)
            IN  IF T = {}
                THEN (i - 1) \notin DOMAIN stagedGroups
                ELSE /\ (i - 1) \in DOMAIN stagedGroups
                     /\ stagedGroups[i - 1] = SuffixFrom(stages[i], Min(T))

\* C6 witness: a stage whose first matching group comes after a stage-copy
\* group and is followed by a group that matches no changed file
C6_Witness ==
    /\ dfpc = "seeded"
    /\ \E i \in 1..Len(stages) :
          LET T == LocalTriggers(stages[i], files)
          IN  /\ T # {}
              /\ Min(T) >= 2
              /\ stages[i].actionGroups[1].dependentOnStage
              /\ Len(stages[i].actionGroups) \notin T
              /\ Len(stagedGroups[i - 1]) >= 2

\* C7: in the final result, a stage T with a stage copy from an invalidated
\* stage S is itself invalidated, with at least the groups from its first
\* stage-copy group that depends on S to its end
C7_DependentStagesInvalidated ==
    dfpc = "done" =>
        \A S \in DOMAIN stagedGroups : \A t \in 1..Len(stages) :
            (stages[t].index # S /\ StageTriggers(stages[t], S) # {}) =>
                /\ stages[t].index \in DOMAIN stagedGroups
                /\ IsSuffix(SuffixFrom(stages[t], Min(StageTriggers(stages[t], S))),
                            stagedGroups[stages[t].index])
                /\ IsSuffix(stagedGroups[stages[t].index], stages[t].actionGroups)

\* C7 witness: a chain of length two: stage 2 is invalidated only through
\* stage 1, which is invalidated only through stage 0
C7_Witness ==
    /\ dfpc = "done"
    /\ Len(stages) = 3
    /\ DOMAIN stagedGroups = {0, 1, 2}
    /\ LocalTriggers(stages[2], files) = {}
    /\ LocalTriggers(stages[3], files) = {}
    /\ StageTriggers(stages[2], 0) # {}
    /\ StageTriggers(stages[3], 1) # {}
    /\ StageTriggers(stages[3], 0) = {}

\* C8: a stage is in the final result only if one of its local copy sources
\* matches a changed file or it copies from another stage of the result; when
\* no local copy of any stage matches, the result is empty
C8_NoSpuriousInvalidation ==
    dfpc = "done" =>
        /\ \A T \in DOMAIN stagedGroups :
              /\ T \in StageIndices
              /\ \/ LocalTriggers(StageAt(T), files) # {}
                 \/ \E S \in DOMAIN stagedGroups \ {T} : StageTriggers(StageAt(T), S) # {}
        /\ (\A i \in 1..Len(stages) : LocalTriggers(stages[i], files) = {})
              => DOMAIN stagedGroups = {}

\* C8 witness: stage 1 stays out of a result that holds stages 0 and 2
C8_Witness ==
    /\ dfpc = "done"
    /\ Len(stages) = 3
    /\ DOMAIN stagedGroups = {0, 2}
    /\ Len(stages[2].actionGroups) > 0
    /\ StageTriggers(stages[3], 0) # {}

\* the lengths of the suffixes that invalidate stage T in the final result
CandidateLengths(T) ==
    LET stage == StageAt(T)
        n == Len(stage.actionGroups)
    IN  (IF LocalTriggers(stage, files) = {} THEN {}
         ELSE {n - Min(LocalTriggers(stage, files)) + 1})
        \cup {n - Min(StageTriggers(stage, S)) + 1 :
                S \in {X \in DOMAIN stagedGroups \ {T} : StageTriggers(stage, X) # {}}}

\* C9: the groups recorded for a stage are the longest of its candidate
\* suffixes, whatever the order in which they were found
C9_LongestSuffix ==
    dfpc = "done" =>
        \A T \in DOMAIN stagedGroups :
            /\ CandidateLengths(T) # {}
            /\ IsSuffix(stagedGroups[T], StageAt(T).actionGroups)
            /\ Len(stagedGroups[T]) = Max(CandidateLengths(T))

\* C9 witness: a stage invalidated both by a changed file and by a source
\* stage, the local suffix being the longer one
C9_Witness ==
    /\ dfpc = "done"
    /\ \E T \in DOMAIN stagedGroups :
          /\ Cardinality(CandidateLengths(T)) >= 2
          /\ LocalTriggers(StageAt(T), files) # {}
          /\ Len(stagedGroups[T]) =
                Len(StageAt(T).actionGroups) - Min(LocalTriggers(StageAt(T), files)) + 1

-----------------------------------------------------------------------------
(* Properties of the parser and of the stage builder *)

\* a recipe has been accepted: Dockerfile.parse has come to its end
Accepted == dfpc \in {"ready", "seeded", "expand", "done"}

\* every stage dependency of the recipe is to a strictly lower index
DependenciesPointBack ==
    \A i \in 1..Len(stages) :
        /\ \A d \in stages[i].dependentOnStages : d < stages[i].index
        /\ \A g \in 1..Len(stages[i].actionGroups) :
              stages[i].actionGroups[g].dependentOnStage
              => stages[i].actionGroups[g].stageDependency < stages[i].index

\* C21: in every accepted recipe, every index in a stage's dependentOnStages
\* and every stageDependency of its stage-copy groups is strictly less than
\* the index of the stage.
C21_DependenciesPointBack == Accepted => DependenciesPointBack

\* C22: getActionGroupsFromChangedFiles terminates for every accepted recipe
\* and every set of changed files: an expansion that has started comes to
\* its end.
C22_ExpansionTerminates == (dfpc = "seeded") ~> (dfpc = "done")

\* the number of groups recorded for the stage with index k (0 when none is)
Recorded(sg, k) == IF k \in DOMAIN sg THEN Len(sg[k]) ELSE 0

\* one step of the expansion leaves no stage with a shorter recorded suffix
SuffixesGrow ==
    dfpc \in {"seeded", "expand"} =>
        \A k \in 0..MaxStages : Recorded(stagedGroups', k) >= Recorded(stagedGroups, k)

\* 2^n
RECURSIVE Pow2(_)
Pow2(n) == IF n = 0 THEN 1 ELSE 2 * Pow2(n - 1)

\* C23 as stated: the suffix recorded for a stage never gets shorter during
\* the expansion, and the expansion ends after at most |stages| processed
\* frontier stages.
C23_AtMostStagesSteps == dfpc \in {"expand", "done"} => expanded <= Len(stages)

\* C23, amended: the suffix recorded for a stage never gets shorter during
\* the expansion, and when every stage dependency is to a strictly lower
\* index the expansion ends after at most 2^|stages| - 1 processed frontier
\* stages (the frontier holds a stage once for every dependency path that
\* leads to it from a stage with a changed local copy).
C23_MonotoneAndBounded ==
    [][ /\ SuffixesGrow
        /\ (DependenciesPointBack /\ dfpc' \in {"expand", "done"})
              => expanded' <= Pow2(Len(stages)) - 1 ]_vars

\* an expansion over two stages has ended after three processed frontier
\* stages, the second stage with a longer suffix than the one it was seeded with
C23_Witness ==
    /\ dfpc = "done"
    /\ DependenciesPointBack
    /\ Len(stages) = 2
    /\ expanded = 3
    /\ Recorded(stagedGroups, 1) > Recorded(LocalStagedGroups(stages, files), 1)
    /\ Recorded(LocalStagedGroups(stages, files), 1) > 0

\* C24: after parsing, every action group of every stage has at least one
\* copy or at least one command.
C24_NoEmptyGroup ==
    Accepted =>
        \A i \in 1..Len(stages) : \A g \in 1..Len(stages[i].actionGroups) :
            Len(stages[i].actionGroups[g].copies) > 0
            \/ Len(stages[i].actionGroups[g].commands) > 0

\* an accepted stage whose WORKDIR opened a group that got neither a copy
\* nor a command: the group is gone, the groups around it are kept
C24_Witness ==
    /\ Accepted
    /\ \E i \in 1..Len(stages) :
          /\ stages[i].lastWorkdir = <<"/", "w">>
          /\ Len(stages[i].actionGroups) > 0
          /\ \A g \in 1..Len(stages[i].actionGroups) :
                stages[i].actionGroups[g].workdir = <<"/">>

\* the kind of a group: local, or a copy from a stage
LocalKind == <<"local">>
StageKind(stageIdx) == <<"stage", stageIdx>>
KindOfGroup(ag) == IF ag.dependentOnStage THEN StageKind(ag.stageDependency) ELSE LocalKind

\* the kind of a COPY entry read in the state of the parser stgs
KindOfCopy(stgs, entry) ==
    LET split == removeFlags(entry.args)
    IN  IF HasFlag(split.flags, "from")
        THEN StageKind(stageNameToIndex(stgs, FlagValue(split.flags, "from")))
        ELSE LocalKind

\* the step of the state machine is Dockerfile.parse consuming `entry` in the
\* current stage without an error
StepOfStage(entry) ==
    /\ dfpc = "parse" /\ dfpc' = "parse"
    /\ nentries' = nentries + 1
    /\ Len(stages) > 0 /\ Len(stages') = Len(stages)
    /\ ParseEntry(stages, entry).error = "none"
    /\ stages' = ParseEntry(stages, entry).stages

\* what the claim says of the step that consumes `entry`.  The step before a
\* COPY was a COPY of the same kind exactly when lastStepWasCopy is set and
\* the last group is of that kind: every step leaves lastStepWasCopy and the
\* kind of the last group as its own kind of step demands (the last conjunct
\* of each case), and a new stage starts with lastStepWasCopy unset.
GroupingOfStep(entry) ==
    LET before == Last(stages)
        after == Last(stages')
        n == Len(before.actionGroups)
        added == Len(after.actionGroups) = n
                 /\ Len(after.actionGroups[n].copies) > Len(before.actionGroups[n].copies)
                 /\ \A g \in 1..(n - 1) : after.actionGroups[g] = before.actionGroups[g]
        opened == Len(after.actionGroups) = n + 1
                 /\ \A g \in 1..n : after.actionGroups[g].copies = before.actionGroups[g].copies
    IN  CASE entry.name = "COPY" ->
              LET kind == KindOfCopy(stages, entry)
                  sameKind == before.lastStepWasCopy /\ KindOfGroup(before.actionGroups[n]) = kind
              IN  /\ added <=> sameKind
                  /\ opened <=> ~sameKind
                  /\ Len(after.actionGroups[Len(after.actionGroups)].copies) > 0
                  /\ after.lastStepWasCopy /\ KindOfGroup(Last(after.actionGroups)) = kind
          [] entry.name = "WORKDIR" ->
              /\ opened
              /\ Last(after.actionGroups).workdir = entry.args
              /\ ~after.lastStepWasCopy
          [] entry.name = "RUN" ->
              /\ Len(after.actionGroups) = n
              /\ ~after.lastStepWasCopy
          [] OTHER -> TRUE

\* C25: within a stage a COPY is added to the last action group if and only
\* if the step right before it in that stage was a COPY of the same kind
\* (both local, or both from the same source stage); in every other case it
\* starts a new group, and a WORKDIR always starts a new group.
C25_CopyCoalescing ==
    [][ /\ \A entry \in Entries : StepOfStage(entry) => GroupingOfStep(entry)
        /\ \A i \in 1..Len(stages') :
              i > Len(stages) => ~stages'[i].lastStepWasCopy ]_vars

\* a stage in which two local copies share a group and the stage copy that
\* follows them opened the next one
C25_Witness ==
    /\ dfpc = "parse"
    /\ \E i \in 1..Len(stages) : \E g \in 1..(Len(stages[i].actionGroups) - 1) :
          /\ Len(stages[i].actionGroups[g].copies) = 2
          /\ KindOfGroup(stages[i].actionGroups[g]) = LocalKind
          /\ stages[i].actionGroups[g].commands = <<>>
          /\ KindOfGroup(stages[i].actionGroups[g + 1]) # LocalKind

\* the lines of the stage at position k of a text: those behind its FROM, up
\* to the next FROM
FromPositions(text) ==
    {p \in 1..Len(text) : text[p].line = "instruction" /\ text[p].name = "FROM"}

StageLines(text, k) ==
    LET start == CHOOSE p \in FromPositions(text) :
                    Cardinality({q \in FromPositions(text) : q < p}) = k - 1
        later == {q \in FromPositions(text) : q > start}
        end == IF later = {} THEN Len(text) ELSE Min(later) - 1
    IN  SubSeq(text, start + 1, end)

IsRun(l) == l.line = "instruction" /\ l.name = "RUN"
IsCopy(l) == l.line = "instruction" /\ l.name = "COPY"
IsOpener(l) == l.line = "instruction" /\ l.name \in {"COPY", "WORKDIR"}

\* the arguments of the RUN lines, in order
RunArgs(lines) ==
    LET runs == SelectSeq(lines, IsRun) IN [i \in 1..Len(runs) |-> runs[i].args]

CountLines(lines, upTo, Is(_)) == Cardinality({q \in 1..upTo : Is(lines[q])})

RECURSIVE CopiesUpTo(_, _)
CopiesUpTo(groups, g) ==
    IF g = 0 THEN 0 ELSE Len(groups[g].copies) + CopiesUpTo(groups, g - 1)

RECURSIVE CommandsUpTo(_, _)
CommandsUpTo(groups, g) ==
    IF g = 0 THEN 0 ELSE Len(groups[g].commands) + CommandsUpTo(groups, g - 1)

\* the RUN on line p of the stage sits in the group of the latest COPY or
\* WORKDIR line before it: the group that holds the copy of that COPY line,
\* or the group without copies, behind all the copies before that WORKDIR
\* line, whose workdir is the one of the line
InGroupOfOpener(stage, lines, p) ==
    LET groups == stage.actionGroups
        m == CountLines(lines, p, IsRun)
        g == Min({h \in 1..Len(groups) : CommandsUpTo(groups, h) >= m})
        openers == {q \in 1..(p - 1) : IsOpener(lines[q])}
        q == Max(openers)
        j == CountLines(lines, q, IsCopy)
    IN  IF openers = {}
        THEN g = 1 /\ groups[g].copies = <<>> /\ groups[g].workdir = Root
        ELSE IF IsCopy(lines[q])
             THEN CopiesUpTo(groups, g) >= j /\ CopiesUpTo(groups, g - 1) < j
             ELSE /\ groups[g].copies = <<>>
                  /\ groups[g].workdir = lines[q].args
                  /\ CopiesUpTo(groups, g) = j

\* C26: for every stage of a parsed recipe, the commands of its action
\* groups, group after group, are the RUN instructions of the stage in source
\* order, and every command is in the group of the latest COPY or WORKDIR
\* before it in the stage.
C26_CommandsInSourceOrder ==
    live.pc = "ready" =>
        \A k \in 1..Len(stages) :
            /\ CommandsOfGroups(stages[k].actionGroups) = RunArgs(StageLines(live.text, k))
            /\ \A p \in 1..Len(StageLines(live.text, k)) :
                  IsRun(StageLines(live.text, k)[p])
                  => InGroupOfOpener(stages[k], StageLines(live.text, k), p)

\* a parsed stage with c1 in the group at the root, ahead of c2 in the group
\* of the copy
C26_Witness ==
    /\ live.pc = "ready"
    /\ \E k \in 1..Len(stages) :
          /\ Len(stages[k].actionGroups) = 2
          /\ stages[k].actionGroups[1].commands = <<"c1">>
          /\ stages[k].actionGroups[1].copies = <<>>
          /\ Len(stages[k].actionGroups[2].copies) = 1
          /\ stages[k].actionGroups[2].commands = <<"c2", "c1">>

\* the entries of the stage at position k of a parsed Dockerfile: those
\* behind its FROM, up to the next FROM
FromPositionsOf(entries) == {p \in 1..Len(entries) : entries[p].name = "FROM"}

StageStart(entries, k) ==
    CHOOSE p \in FromPositionsOf(entries) :
        Cardinality({q \in FromPositionsOf(entries) : q < p}) = k - 1

StageEntries(entries, k) ==
    LET later == {q \in FromPositionsOf(entries) : q > StageStart(entries, k)}
    IN  SubSeq(entries, StageStart(entries, k) + 1,
               IF later = {} THEN Len(entries) ELSE Min(later) - 1)

\* the line is behind a live cmd marker of the Dockerfile
BehindMarker(entries, lineno) ==
    \E m \in 1..Len(entries) :
        entries[m].name = "LIVECMD_MARKER" /\ entries[m].lineno < lineno

IsCopyEntry(entry) == entry.name = "COPY"

\* the restart flags of the stage at position k: a group with copies was made
\* by the COPY of its first copy, a group without copies with the stage (the
\* recipes have no WORKDIR); no group holds copies of both sides of a marker.
\* Every COPY of the recipes has one source.
RestartFlagsOfStage(entries, stgs, k) ==
    LET groups == stgs[k].actionGroups
        copyEntries == SelectSeq(StageEntries(entries, k), IsCopyEntry)
    IN  \A g \in 1..Len(groups) :
            /\ HasRestartFlag(groups[g])
            /\ IF Len(groups[g].copies) = 0
               THEN groups[g].restart
                      = ~BehindMarker(entries, entries[StageStart(entries, k)].lineno)
               ELSE \A j \in (CopiesUpTo(groups, g - 1) + 1)..CopiesUpTo(groups, g) :
                       groups[g].restart = ~BehindMarker(entries, copyEntries[j].lineno)

\* C27: in the parsed live recipe every action group created at or before
\* the live cmd marker has restart = true and every group created behind it
\* has restart = false; a copy behind the marker is never merged into a group
\* created before it; without a marker every group has restart = true.
C27_RestartFlags ==
    live.pc = "ready" =>
        /\ \A k \in 1..Len(live.df.stages) :
              RestartFlagsOfStage(live.df.parsedDockerfile, live.df.stages, k)
        /\ (\A m \in 1..Len(live.df.parsedDockerfile) :
                live.df.parsedDockerfile[m].name # "LIVECMD_MARKER")
            => \A k \in 1..Len(live.df.stages) :
                  \A g \in 1..Len(live.df.stages[k].actionGroups) :
                      live.df.stages[k].actionGroups[g].restart

\* the live recipe generated for a live cmd between two copies: the copy
\* before the marker in a group that restarts, the one behind it in a group of
\* its own that does not
C27_Witness ==
    /\ live.pc = "ready"
    /\ live.df.liveDockerfile # Null
    /\ live.df.liveCmd # Null
    /\ Len(live.df.stages) = 1
    /\ Len(live.df.stages[1].actionGroups) = 2
    /\ Len(live.df.stages[1].actionGroups[1].copies) = 1
    /\ live.df.stages[1].actionGroups[1].restart
    /\ Len(live.df.stages[1].actionGroups[2].copies) = 1
    /\ ~live.df.stages[1].actionGroups[2].restart

-----------------------------------------------------------------------------
(* Properties of the executor *)

\* what a log entry of the executor is about: the operation, and the command
\* of a commandExecute or commandReturn
OpTag(entry) ==
    IF entry.op \in {"commandExecute", "commandReturn"}
    THEN <<entry.op, entry.command>>
    ELSE <<entry.op>>

\* the uploads, deletes, stage copies and commands of a log on the container
\* of a stage, in order
RECURSIVE GroupOpsLogged(_, _)
GroupOpsLogged(log, stage) ==
    IF log = <<>> THEN <<>>
    ELSE (IF /\ log[1].op \in {"upload", "delete", "stageCopy",
                                "commandExecute", "commandReturn"}
             /\ log[1].stage = stage
          THEN <<OpTag(log[1])>> ELSE <<>>)
         \o GroupOpsLogged(Tail(log), stage)

RECURSIVE CommandOps(_)
CommandOps(commands) ==
    IF commands = <<>> THEN <<>>
    ELSE << <<"commandExecute", commands[1]>>, <<"commandReturn", commands[1]>> >>
         \o CommandOps(Tail(commands))

\* the operations of the action groups when each is carried out to its end:
\* group after group, the files of a group before its commands, the upload
\* before the delete, each command started and ended before the next
RECURSIVE GroupOpsInOrder(_)
GroupOpsInOrder(groups) ==
    IF groups = <<>> THEN <<>>
    ELSE (IF groups[1].dependentOnStage THEN << <<"stageCopy">> >>
          ELSE << <<"upload">>, <<"delete">> >>)
         \o CommandOps(groups[1].commands)
         \o GroupOpsInOrder(Tail(groups))

\* C28: within each action group executed by executeActionGroups the upload
\* is through before a delete starts, the deletes are through before the
\* first command starts and the commands run one at a time in the order of
\* their declaration; the groups run in their order.
C28_GroupOperationsInOrder ==
    \A c \in CallIds : \A s \in DOMAIN calls[c].tasks :
        IsPrefix(GroupOpsLogged(calls[c].log, s), GroupOpsInOrder(calls[c].tasks[s]))

\* a run that has carried out both groups of a stage to the end, the two
\* commands of the first group included
C28_Witness ==
    \E c \in CallIds : \E s \in DOMAIN calls[c].tasks :
        /\ calls[c].pc = "done"
        /\ Len(calls[c].tasks[s]) = 2
        /\ Len(calls[c].tasks[s][1].commands) = 2
        /\ GroupOpsLogged(calls[c].log, s) = GroupOpsInOrder(calls[c].tasks[s])

\* C29: after a command has exited with a non-zero code no further command
\* is executed in that run of performLivepush, the commands of the later
\* stages included, and the run resolves without an error (no container
\* having stopped).
C29_FailedCommandEndsRun ==
    \A c \in CallIds :
        LET ops == Operations(calls[c].log)
        IN  \A i \in DOMAIN ops :
                ops[i].op = "commandReturn" /\ ops[i].returnCode # 0
                => /\ \A j \in (i + 1)..Len(ops) : ops[j].op # "commandExecute"
                   /\ (calls[c].pc = "done" /\ nstops = 0)
                        => calls[c].result = "resolved"

\* the cancellation of the run has been requested: the run has seen a cancel
CancelRequested(call) == \E i \in DOMAIN call.log : call.log[i].op = "cancelled"

\* the step starts a remote operation of the run c: the files of a group (an
\* upload and deletes, or a stage copy), a command, or the restart
StartsOperation(c) ==
    /\ calls'[c].pc \in {"files", "exec", "restart"}
    /\ <<calls'[c].pc, calls'[c].ki, calls'[c].gi, calls'[c].ci>>
         # <<calls[c].pc, calls[c].ki, calls[c].gi, calls[c].ci>>

\* C30: once the cancellation of a run has been requested the run starts no
\* further command and no further action group (no upload, delete or stage
\* copy) and does not restart the container: the remote operation in
\* progress comes to its end and nothing is started after it.
C30_NothingStartedAfterCancel ==
    [][\A c \in CallIds : CancelRequested(calls[c]) => ~StartsOperation(c)]_vars


-----------------------------------------------------------------------------
(* Properties of the flags *)

\* a performLivepush call is in progress: called and not yet settled
InProgress(call) == call.pc \notin {"idle", "done"}

\* C31: whenever no performLivepush call is in progress, livepushRunning and
\* cancelRun are false and no stage container is marked cancelled, whatever
\* performLivepush and cancel calls came before.
C31_FlagsClearWhenIdle ==
    (\A c \in CallIds : ~InProgress(calls[c]))
    => /\ ~livepushRunning
       /\ ~cancelRun
       /\ \A s \in DOMAIN containers : ~containers[s].cancelled

\* every command the run has seen return exited 0
AllExitedZero(call) ==
    \A i \in DOMAIN call.log :
        call.log[i].op = "commandReturn" => call.log[i].returnCode = 0

\* C32: a run during which no cancellation is requested, on containers that
\* run and with every command exiting 0, executes every command of every
\* action group of its tasks, whatever cancellation was requested before it
\* began executing.
C32_UncancelledRunExecutesAll ==
    \A c \in CallIds :
        /\ calls[c].pc = "done"
        /\ ~CancelRequested(calls[c])
        /\ nstops = 0
        /\ AllExitedZero(calls[c])
        => CommandsExecuted(calls[c]) = AllCommands(calls[c].tasks)

\* C33: every performLivepush call eventually returns, for any interleaving
\* of performLivepush and cancel calls, every remote operation terminating.
C33_EveryCallReturns ==
    \A c \in 1..2 : InProgress(calls[c]) ~> (calls[c].pc = "done")


-----------------------------------------------------------------------------
(* Properties of pathIsDirectory *)

\* C34: pathIsDirectory is memoized per container: after the first call for
\* a path on a container every later call for that path on that container
\* makes no remote exec and gets the answer of the first, whatever has
\* happened to the filesystem since; and a cache holds nothing but the
\* promises of the calls made on its own container.
C34_MemoizedPerContainer ==
    /\ \A i, j \in DOMAIN tests :
           /\ i < j
           /\ tests[i].stage = tests[j].stage
           /\ tests[i].path = tests[j].path
           => /\ ~tests[j].exec
              /\ tests[j].promise = tests[i].promise
              /\ tests[j].answer = tests[i].answer
    /\ \A s \in DOMAIN containers :
           \A path \in DOMAIN containers[s].pathIsDirectory :
               \E i \in DOMAIN tests :
                   /\ tests[i].stage = s
                   /\ tests[i].path = path
                   /\ tests[i].exec
                   /\ tests[i].promise = containers[s].pathIsDirectory[path].id

\* a later call gets the answer of the first although the path has become a
\* directory since, and the other container, asked for the same path, has a
\* cache entry of its own with the other answer
C34_Witness ==
    /\ Len(tests) = 3
    /\ tests[1].stage = 0 /\ tests[3].stage = 0 /\ tests[2].stage = 1
    /\ tests[1].path = Destination /\ tests[2].path = Destination
    /\ tests[3].path = Destination
    /\ tests[1].answer = "other"
    /\ tests[3].answer = "other"
    /\ ~tests[3].exec
    /\ tests[2].answer = "directory"
    /\ <<0, Destination>> \in dirs


-----------------------------------------------------------------------------
(* Properties of parseDockerfile *)

DirectiveEntryNames ==
    {"LIVECMD", "LIVERUN", "LIVECOPY", "LIVEENV", "ESCAPE", "LIVECMD_MARKER"}

IsDirectiveEntry(entry) == entry.name \in DirectiveEntryNames

\* the numbers of the lines of a text that are no comments, in order
RECURSIVE ContentLinenos(_, _)
ContentLinenos(text, idx) ==
    IF idx > Len(text) THEN <<>>
    ELSE (IF text[idx].line = "comment" THEN <<>> ELSE <<idx>>)
         \o ContentLinenos(text, idx + 1)

\* the instructions of a text: what is read from the text once its comments
\* are taken out, each with the number its last line has in the text
InstructionsOf(text) ==
    LET linenos == ContentLinenos(text, 1)
        kept == [k \in 1..Len(linenos) |-> text[linenos[k]]]
        read == parse(kept, 1, Null)
    IN  [k \in 1..Len(read) |->
            [name |-> read[k].name, args |-> read[k].args,
             lineno |-> linenos[read[k].lineno]]]

NameArgsLineno(entries) ==
    [k \in 1..Len(entries) |->
        [name |-> entries[k].name, args |-> entries[k].args,
         lineno |-> entries[k].lineno]]

\* C35: parseDockerfile returns the instructions of the text, each with the
\* number of the line it ends on, and the directive entries in one list in
\* the order of the line numbers, no two entries on one line: a directive
\* comes after the instructions that end before its line and before the
\* others, and blank lines and comments change no instruction.
C35_MergedByLineno ==
    live.pc = "parsed"
    => /\ \A i \in 1..(Len(live.entries) - 1) :
              live.entries[i].lineno < live.entries[i + 1].lineno
       /\ NameArgsLineno(SelectSeq(live.entries, LAMBDA x : ~IsDirectiveEntry(x)))
            = InstructionsOf(live.text)

\* the type of the entry a comment directive is parsed into
EntryTypeOf(directive) ==
    CASE directive = "dev-cmd-live" -> "LIVECMD"
      [] directive = "dev-run" -> "LIVERUN"
      [] directive = "dev-copy" -> "LIVECOPY"
      [] directive = "dev-env" -> "LIVEENV"
      [] directive = "escape" -> "ESCAPE"
      [] directive = "livecmd-marker" -> "LIVECMD_MARKER"
      [] OTHER -> "none"

\* the directive entries the comments of a text stand for, line after line
RECURSIVE DirectivesOf(_, _)
DirectivesOf(text, idx) ==
    IF idx > Len(text) THEN <<>>
    ELSE LET line == text[idx]
         IN  (IF /\ line.line = "comment"
                 /\ Len(line.body) >= 2
                 /\ line.body[2] = "="
                 /\ EntryTypeOf(line.body[1]) # "none"
              THEN <<[name |-> EntryTypeOf(line.body[1]),
                      args |-> SubSeq(line.body, 3, Len(line.body)),
                      lineno |-> idx]>>
              ELSE <<>>) \o DirectivesOf(text, idx + 1)

\* C36: every comment `<directive>=<args>` with one of the directives
\* dev-cmd-live, dev-run, dev-copy, dev-env, escape and livecmd-marker is
\* parsed into the entry of its type, with the text behind the first "=" as
\* args and the line of the comment as lineno; no other comment gives an
\* entry.
C36_TypedDirectiveEntries ==
    live.pc = "parsed"
    => NameArgsLineno(SelectSeq(live.entries, IsDirectiveEntry))
         = DirectivesOf(live.text, 1)


-----------------------------------------------------------------------------
(* Properties of the watcher *)

\* some run has uploaded the file
Uploaded(path) ==
    \E c \in CallIds : \E i \in DOMAIN calls[c].log :
        calls[c].log[i].op = "upload" /\ path \in calls[c].log[i].files

\* some run has deleted the file in its container
Deleted(path) ==
    \E c \in CallIds : \E i \in DOMAIN calls[c].log :
        calls[c].log[i].op = "delete" /\ path \in calls[c].log[i].files

\* C37: no path the watcher has reported leaves the list of the changed or
\* of the deleted files before a performLivepush run has uploaded or deleted
\* it, also when it was reported while an earlier run was in flight.
C37_NoReportedPathDropped ==
    [][/\ \A path \in changedFiles \ changedFiles' : Uploaded(path)
       /\ \A path \in deletedFiles \ deletedFiles' : Deleted(path)]_vars

=============================================================================
